---- MODULE Spec2Model ----
(***************************************************************************)
(* Model of ip.js (the IP address / Mask value library).                   *)
(*                                                                         *)
(* JavaScript values are records tagged by their type.  Strings are        *)
(* sequences of one-character strings, so that splitting, parseInt,        *)
(* Number() and Number.prototype.toString are computed character by        *)
(* character.  Numbers are sign + magnitude, the magnitude a little-endian *)
(* sequence of base-256 limbs without leading zero limbs (an address is    *)
(* four limbs), because 0xffffffff exceeds the integers of the checker.    *)
(* A finite number with frac = TRUE is its magnitude plus one half (the    *)
(* only fractions the inputs use); -0 is identified with 0.  Every value   *)
(* the inputs produce is below 2^53, where doubles are exact.              *)
(***************************************************************************)
EXTENDS Integers, Sequences, FiniteSets, TLC

VARIABLES heap, given, call, prev, globals

vars == <<heap, given, call, prev, globals>>

----------------------------------------------------------------------------
(* Natural numbers of arbitrary size: little-endian base-256 limbs.        *)

SetMax(S) == CHOOSE x \in S : \A y \in S : y <= x
SetMin(S) == CHOOSE x \in S : \A y \in S : x <= y

RECURSIVE Norm(_)
Norm(a) ==
    IF a # <<>> /\ a[Len(a)] = 0 THEN Norm(SubSeq(a, 1, Len(a) - 1)) ELSE a

RECURSIVE AddC(_, _, _)
AddC(a, b, c) ==
    IF a = <<>> /\ b = <<>>
    THEN IF c = 0 THEN <<>> ELSE <<c>>
    ELSE LET x == IF a = <<>> THEN 0 ELSE Head(a)
             y == IF b = <<>> THEN 0 ELSE Head(b)
             s == x + y + c
         IN  <<s % 256>> \o AddC(IF a = <<>> THEN <<>> ELSE Tail(a),
                                 IF b = <<>> THEN <<>> ELSE Tail(b),
                                 s \div 256)

BigAdd(a, b) == Norm(AddC(a, b, 0))

RECURSIVE MulC(_, _, _)
MulC(a, k, c) ==
    IF a = <<>>
    THEN IF c = 0 THEN <<>> ELSE <<c % 256>> \o MulC(<<>>, k, c \div 256)
    ELSE LET s == Head(a) * k + c
         IN  <<s % 256>> \o MulC(Tail(a), k, s \div 256)

BigMulSmall(a, k) == Norm(MulC(a, k, 0))

BigShift(a, n) == IF a = <<>> THEN <<>> ELSE [i \in 1..n |-> 0] \o a

RECURSIVE BigMul(_, _)
BigMul(a, b) ==
    IF b = <<>> THEN <<>>
    ELSE BigAdd(BigMulSmall(a, Head(b)), BigShift(BigMul(a, Tail(b)), 1))

BigCmp(a, b) ==
    IF Len(a) # Len(b)
    THEN IF Len(a) < Len(b) THEN -1 ELSE 1
    ELSE LET d == {i \in 1..Len(a) : a[i] # b[i]}
         IN  IF d = {} THEN 0
             ELSE IF a[SetMax(d)] < b[SetMax(d)] THEN -1 ELSE 1

RECURSIVE SubB(_, _, _)
SubB(a, b, c) ==
    IF a = <<>> THEN <<>>
    ELSE LET y == IF b = <<>> THEN 0 ELSE Head(b)
             s == Head(a) - y - c
         IN  <<s % 256>> \o SubB(Tail(a),
                                 IF b = <<>> THEN <<>> ELSE Tail(b),
                                 IF s < 0 THEN 1 ELSE 0)

\* a - b for a >= b
BigSub(a, b) == Norm(SubB(a, b, 0))

RECURSIVE RemFrom(_, _, _)
RemFrom(a, k, i) ==
    IF i > Len(a) THEN 0 ELSE (RemFrom(a, k, i + 1) * 256 + a[i]) % k

BigDivSmall(a, k) ==
    Norm([i \in 1..Len(a) |-> (RemFrom(a, k, i + 1) * 256 + a[i]) \div k])

BigModSmall(a, k) == RemFrom(a, k, 1)

RECURSIVE BigOfInt(_)
BigOfInt(n) == IF n = 0 THEN <<>> ELSE <<n % 256>> \o BigOfInt(n \div 256)

\* the value of a magnitude of at most three limbs
SmallOf(a) ==
    (IF Len(a) >= 1 THEN a[1] ELSE 0)
  + (IF Len(a) >= 2 THEN a[2] * 256 ELSE 0)
  + (IF Len(a) >= 3 THEN a[3] * 65536 ELSE 0)

----------------------------------------------------------------------------
(* JavaScript values.                                                      *)

Null      == [t |-> "null"]
Undefined == [t |-> "undefined"]
TypeError == [t |-> "throw"]
ReferenceError == [t |-> "throw", name |-> "ReferenceError"]
True      == [t |-> "boolean", b |-> TRUE]
False     == [t |-> "boolean", b |-> FALSE]
Bool(b)   == IF b THEN True ELSE False
Str(s)    == [t |-> "string", s |-> s]
Arr(a)    == [t |-> "array", a |-> a]
Ref(i)    == [t |-> "object", cls |-> "IP", id |-> i]
MaskRef(i) == [t |-> "object", cls |-> "Mask", id |-> i]

NaN       == [t |-> "number", k |-> "NaN", neg |-> FALSE, m |-> <<>>, frac |-> FALSE]
Infinity  == [t |-> "number", k |-> "inf", neg |-> FALSE, m |-> <<>>, frac |-> FALSE]
NegInfinity == [t |-> "number", k |-> "inf", neg |-> TRUE, m |-> <<>>, frac |-> FALSE]
Big(m)    == [t |-> "number", k |-> "fin", neg |-> FALSE, m |-> m, frac |-> FALSE]
NegBig(m) == [t |-> "number", k |-> "fin", neg |-> (m # <<>>), m |-> m, frac |-> FALSE]
Frac(m)   == [t |-> "number", k |-> "fin", neg |-> FALSE, m |-> m, frac |-> TRUE]
NegFrac(m) == [t |-> "number", k |-> "fin", neg |-> TRUE, m |-> m, frac |-> TRUE]
\* the address a.b.c.d as a number
Addr(a, b, c, d) == Big(Norm(<<d, c, b, a>>))

IsNumber(v) == v.t = "number"
IsString(v) == v.t = "string"
IsIP(v)     == v.t = "object" /\ v.cls = "IP"

----------------------------------------------------------------------------
(* Number operations of the language, as far as the library uses them.     *)
(* An operator that uses an intermediate value more than once takes it as  *)
(* a parameter of a helper, so every value is computed once.               *)

Signed(neg, m) == IF neg THEN NegBig(m) ELSE Big(m)

\* Math.floor
MathFloor(x) ==
    IF x.k # "fin" \/ ~x.frac THEN x
    ELSE IF x.neg THEN NegBig(BigAdd(x.m, <<1>>)) ELSE Big(x.m)

MagLt(a, b, c) == c < 0 \/ (c = 0 /\ ~a.frac /\ b.frac)

\* x < y on numbers (false when either is NaN)
NumLt(x, y) ==
    IF x.k = "NaN" \/ y.k = "NaN" THEN FALSE
    ELSE IF x.k = "inf" THEN x.neg /\ ~(y.k = "inf" /\ y.neg)
    ELSE IF y.k = "inf" THEN ~y.neg
    ELSE IF x.neg # y.neg THEN x.neg
    ELSE IF x.neg THEN MagLt(y, x, BigCmp(y.m, x.m)) ELSE MagLt(x, y, BigCmp(x.m, y.m))

NumGt(x, y)  == NumLt(y, x)
NumEq(x, y)  == x.k # "NaN" /\ y.k # "NaN" /\ x = y
NumLte(x, y) == x.k # "NaN" /\ y.k # "NaN" /\ ~NumLt(y, x)
NumGte(x, y) == x.k # "NaN" /\ y.k # "NaN" /\ ~NumLt(x, y)

\* x + y and x * y on integers and NaN
NumAdd(x, y) ==
    IF x.k = "NaN" \/ y.k = "NaN" THEN NaN
    ELSE IF x.neg = y.neg THEN Signed(x.neg, BigAdd(x.m, y.m))
    ELSE IF BigCmp(x.m, y.m) >= 0 THEN Signed(x.neg, BigSub(x.m, y.m))
    ELSE Signed(y.neg, BigSub(y.m, x.m))

NumMul(x, y) ==
    IF x.k = "NaN" \/ y.k = "NaN" THEN NaN
    ELSE Signed(x.neg # y.neg, BigMul(x.m, y.m))

----------------------------------------------------------------------------
(* Strings: sequences of one-character strings.                            *)

HexLower == <<"0","1","2","3","4","5","6","7","8","9","a","b","c","d","e","f">>
HexUpper == <<"0","1","2","3","4","5","6","7","8","9","A","B","C","D","E","F">>

IsDigitIn(c, radix) ==
    \E i \in 1..radix : HexLower[i] = c \/ HexUpper[i] = c

DigitVal(c) == (CHOOSE i \in 1..16 : HexLower[i] = c \/ HexUpper[i] = c) - 1

StrIsDigits(s, radix) == \A i \in 1..Len(s) : IsDigitIn(s[i], radix)

\* the number written by the digits s in the given radix
RECURSIVE DigitsValue(_, _)
DigitsValue(s, radix) ==
    IF s = <<>> THEN <<>>
    ELSE BigAdd(BigMulSmall(DigitsValue(SubSeq(s, 1, Len(s) - 1), radix), radix),
                BigOfInt(DigitVal(s[Len(s)])))

\* first index of s holding a character of cs, 0 if none
FirstOf(hit) == IF hit = {} THEN 0 ELSE SetMin(hit)
IndexOf(s, cs) == FirstOf({i \in 1..Len(s) : s[i] \in cs})

RECURSIVE TrimLeft(_)
TrimLeft(s) == IF s # <<>> /\ Head(s) = " " THEN TrimLeft(Tail(s)) ELSE s

RECURSIVE TrimRight(_)
TrimRight(s) ==
    IF s # <<>> /\ s[Len(s)] = " " THEN TrimRight(SubSeq(s, 1, Len(s) - 1)) ELSE s

\* String.prototype.split('.')
RECURSIVE SplitAt(_, _, _)
SplitAt(s, sep, i) ==
    IF i = 0 THEN <<s>>
    ELSE <<SubSeq(s, 1, i - 1)>>
         \o SplitAt(SubSeq(s, i + 1, Len(s)), sep,
                    IndexOf(SubSeq(s, i + 1, Len(s)), {sep}))

Split(s, sep) == SplitAt(s, sep, IndexOf(s, {sep}))

\* Array.prototype.join('.')
RECURSIVE Join(_, _)
Join(parts, sep) ==
    IF parts = <<>> THEN <<>>
    ELSE IF Len(parts) = 1 THEN parts[1]
    ELSE parts[1] \o <<sep>> \o Join(Tail(parts), sep)

\* parseInt(s, radix) for radix 8, 10 or 16: white space, sign, the 0x of
\* radix 16, then the longest run of digits
ParseIntDigits(neg, v, radix, n) ==
    IF n = 0 THEN NaN ELSE Signed(neg, DigitsValue(SubSeq(v, 1, n), radix))

ParseIntRun(neg, v, radix) ==
    ParseIntDigits(neg, v, radix,
                   FirstOf({i \in 1..(Len(v) + 1) :
                              i = Len(v) + 1 \/ ~IsDigitIn(v[i], radix)}) - 1)

ParseIntPrefix(neg, u, radix) ==
    ParseIntRun(neg,
                IF radix = 16 /\ Len(u) >= 2 /\ u[1] = "0" /\ u[2] \in {"x", "X"}
                THEN SubSeq(u, 3, Len(u)) ELSE u,
                radix)

ParseIntSign(t, radix) ==
    ParseIntPrefix(t # <<>> /\ t[1] = "-",
                   IF t # <<>> /\ t[1] \in {"+", "-"} THEN Tail(t) ELSE t,
                   radix)

parseInt(s, radix) == ParseIntSign(TrimLeft(s), radix)

RECURSIVE ScaleUp(_, _)
ScaleUp(m, e) == IF e = 0 THEN m ELSE ScaleUp(BigMulSmall(m, 10), e - 1)

\* m / 10^e as <<integer part, whether a fraction is left>>
RECURSIVE ScaleDown(_, _, _)
ScaleDown(m, e, f) ==
    IF e = 0 THEN <<m, f>>
    ELSE ScaleDown(BigDivSmall(m, 10), e - 1, f \/ BigModSmall(m, 10) # 0)

InfinityStr == <<"I","n","f","i","n","i","t","y">>

\* StrDecimalLiteral of the language's StringToNumber: sign, digits with an
\* optional point, optional exponent
DecimalDown(neg, d) ==
    [t |-> "number", k |-> "fin", neg |-> neg /\ (d[1] # <<>> \/ d[2]),
     m |-> d[1], frac |-> d[2]]

DecimalScale(neg, M, E) ==
    IF E >= 0 THEN Signed(neg, ScaleUp(M, E))
    ELSE DecimalDown(neg, ScaleDown(M, 0 - E, FALSE))

DecimalValue(neg, M, X, exneg, nf) ==
    IF M = <<>> THEN Big(<<>>)
    ELSE IF Len(X) > 1 THEN (IF exneg THEN Big(<<>>)
                             ELSE IF neg THEN NegInfinity ELSE Infinity)
    ELSE DecimalScale(neg, M, (IF exneg THEN 0 - SmallOf(X) ELSE SmallOf(X)) - nf)

DecimalFields(neg, ip, fp, hasExp, exneg, exd) ==
    IF /\ StrIsDigits(ip, 10) /\ StrIsDigits(fp, 10)
       /\ Len(ip) + Len(fp) >= 1
       /\ (hasExp => exd # <<>> /\ StrIsDigits(exd, 10))
    THEN DecimalValue(neg, DigitsValue(ip \o fp, 10), DigitsValue(exd, 10), exneg, Len(fp))
    ELSE NaN

DecimalPoint(neg, mant, dot, hasExp, ex) ==
    DecimalFields(neg,
                  IF dot = 0 THEN mant ELSE SubSeq(mant, 1, dot - 1),
                  IF dot = 0 THEN <<>> ELSE SubSeq(mant, dot + 1, Len(mant)),
                  hasExp,
                  ex # <<>> /\ ex[1] = "-",
                  IF ex # <<>> /\ ex[1] \in {"+", "-"} THEN Tail(ex) ELSE ex)

DecimalMantissa(neg, mant, hasExp, ex) ==
    DecimalPoint(neg, mant, IndexOf(mant, {"."}), hasExp, ex)

DecimalExponent(neg, u, e) ==
    IF u = InfinityStr THEN (IF neg THEN NegInfinity ELSE Infinity)
    ELSE DecimalMantissa(neg,
                         IF e = 0 THEN u ELSE SubSeq(u, 1, e - 1),
                         e # 0,
                         IF e = 0 THEN <<>> ELSE SubSeq(u, e + 1, Len(u)))

DecimalSign(neg, u) == DecimalExponent(neg, u, IndexOf(u, {"e", "E"}))

StrDecimalLiteral(t) ==
    DecimalSign(t[1] = "-", IF t[1] \in {"+", "-"} THEN Tail(t) ELSE t)

\* 0x, 0o and 0b literals
RadixLiteral(rest, radix) ==
    IF rest # <<>> /\ StrIsDigits(rest, radix) THEN Big(DigitsValue(rest, radix)) ELSE NaN

StringNumericLiteral(t, pre) ==
    IF t = <<>> THEN Big(<<>>)
    ELSE IF pre \in {"x", "X", "o", "O", "b", "B"}
    THEN RadixLiteral(SubSeq(t, 3, Len(t)),
                      IF pre \in {"x", "X"} THEN 16 ELSE IF pre \in {"o", "O"} THEN 8 ELSE 2)
    ELSE StrDecimalLiteral(t)

StringTrimmed(t) ==
    StringNumericLiteral(t, IF Len(t) >= 2 /\ t[1] = "0" THEN t[2] ELSE "")

\* Number(s) for a string s
StringToNumber(s) == StringTrimmed(TrimRight(TrimLeft(s)))

RECURSIVE ToDigits(_, _)
ToDigits(m, radix) ==
    IF m = <<>> THEN <<>>
    ELSE ToDigits(BigDivSmall(m, radix), radix) \o <<HexLower[BigModSmall(m, radix) + 1]>>

\* Number.prototype.toString(radix)
NumberToString(x, radix) ==
    IF x.k = "NaN" THEN <<"N", "a", "N">>
    ELSE IF x.k = "inf" THEN (IF x.neg THEN <<"-">> ELSE <<>>) \o InfinityStr
    ELSE (IF x.neg THEN <<"-">> ELSE <<>>)
         \o (IF x.m = <<>> THEN <<"0">> ELSE ToDigits(x.m, radix))
         \o (IF ~x.frac THEN <<>>
             ELSE IF radix = 10 THEN <<".", "5">> ELSE IF radix = 8 THEN <<".", "4">>
             ELSE <<".", "8">>)

----------------------------------------------------------------------------
(* Conversions of the language on the values the library meets.            *)

\* Number(v) for a value that is not an object
ToNumberPrim(v) ==
    CASE v.t = "number"    -> v
      [] v.t = "string"    -> StringToNumber(v.s)
      [] v.t = "null"      -> Big(<<>>)
      [] v.t = "boolean"   -> IF v.b THEN Big(<<1>>) ELSE Big(<<>>)
      [] OTHER             -> NaN

\* IP.prototype.valueOf, and through it Number(v) for any value
ToNumber(h, v) == ToNumberPrim(IF IsIP(v) THEN h[v.id].value ELSE v)

\* String(v) for a value that is not an object
ToStringPrim(v) ==
    CASE v.t = "string"    -> v.s
      [] v.t = "number"    -> NumberToString(v, 10)
      [] v.t = "null"      -> <<"n", "u", "l", "l">>
      [] v.t = "boolean"   -> IF v.b THEN <<"t", "r", "u", "e">>
                              ELSE <<"f", "a", "l", "s", "e">>
      [] OTHER             -> <<"u", "n", "d", "e", "f", "i", "n", "e", "d">>

\* isNaN(v)
isNaN(h, v) == ToNumber(h, v).k = "NaN"

\* the truthiness of v, as `v || 0` tests it
Truthy(v) ==
    CASE v.t = "number"    -> v.k # "NaN" /\ (v.k = "inf" \/ v.m # <<>> \/ v.frac)
      [] v.t = "string"    -> v.s # <<>>
      [] v.t = "boolean"   -> v.b
      [] v.t = "null"      -> FALSE
      [] v.t = "undefined" -> FALSE
      [] OTHER             -> TRUE

----------------------------------------------------------------------------
(* The static functions of IP.                                             *)

IP_MIN_VALUE == Big(<<>>)
IP_MAX_VALUE == Big(<<255, 255, 255, 255>>)

\* IP.partIsValid: n is Number(part), which isNaN(part) and part < 0 convert to
IP_partIsValid_num(part, n) ==
    ~(part = Null \/ n.k = "NaN" \/ NumLt(n, Big(<<>>)))

IP_partIsValid(h, part) == IP_partIsValid_num(part, ToNumber(h, part))

\* IP.splitParts
IP_splitParts_check(h, parts) ==
    IF \E i \in 1..Len(parts) : ~IP_partIsValid(h, Str(parts[i]))
    THEN Null
    ELSE Arr([i \in 1..Len(parts) |-> Str(parts[i])])

IP_splitParts(h, input) == IP_splitParts_check(h, Split(ToStringPrim(input), "."))

\* the end of IP.parsePart: a negative result is null
IP_parsePart_result(result) ==
    IF NumLt(result, Big(<<>>)) THEN Null ELSE result

\* IP.parsePart reading only a lower-case x as the mark of hexadecimal
IP_parsePart_radix_LowerX(p) ==
    IF p # <<>> /\ p[1] = "0"
    THEN IF Len(p) >= 2 /\ p[2] = "x" THEN 16 ELSE 8
    ELSE 10

\* the radix IP.parsePart reads the string p in
IP_parsePart_radix(p) ==
    IF p # <<>> /\ p[1] = "0"
    THEN IF Len(p) >= 2 /\ (p[2] = "x" \/ p[2] = "X") THEN 16 ELSE 8
    ELSE 10

IP_parsePart_string(p) == IP_parsePart_result(parseInt(p, IP_parsePart_radix(p)))

\* IP.parsePart
IP_parsePart(h, part) ==
    IF IsNumber(part) \/ IsIP(part) THEN ToNumber(h, part)
    ELSE IP_parsePart_string(ToStringPrim(part))

W24 == Big(<<0, 0, 0, 1>>)
W16 == Big(<<0, 0, 1>>)
W8  == Big(<<0, 1>>)

\* IP.addParts giving the i-th part the i-th weight whatever the length
IP_addParts_sum_Fixed(n, P) ==
    CASE n = 0 -> Big(<<>>)
      [] n = 1 -> P[1]
      [] n = 2 -> NumAdd(NumMul(P[1], W24), NumMul(P[2], W16))
      [] n = 3 -> NumAdd(NumAdd(NumMul(P[1], W24), NumMul(P[2], W16)), NumMul(P[3], W8))
      [] n = 4 -> NumAdd(NumAdd(NumAdd(NumMul(P[1], W24), NumMul(P[2], W16)),
                                NumMul(P[3], W8)), P[4])
      [] OTHER -> Null

\* IP.addParts reading the first four parts of a longer list
IP_addParts_sum_Extra(n, P) ==
    CASE n = 0 -> Big(<<>>)
      [] n = 1 -> P[1]
      [] n = 2 -> NumAdd(NumMul(P[1], W24), P[2])
      [] n = 3 -> NumAdd(NumAdd(NumMul(P[1], W24), NumMul(P[2], W16)), P[3])
      [] OTHER -> NumAdd(NumAdd(NumAdd(NumMul(P[1], W24), NumMul(P[2], W16)),
                                NumMul(P[3], W8)), P[4])

\* the sum of IP.addParts; P[i] is IP.parsePart(parts[i]) as a number
IP_addParts_sum(n, P) ==
    CASE n = 0 -> Big(<<>>)
      [] n = 1 -> P[1]
      [] n = 2 -> NumAdd(NumMul(P[1], W24), P[2])
      [] n = 3 -> NumAdd(NumAdd(NumMul(P[1], W24), NumMul(P[2], W16)), P[3])
      [] n = 4 -> NumAdd(NumAdd(NumAdd(NumMul(P[1], W24), NumMul(P[2], W16)),
                                NumMul(P[3], W8)), P[4])
      [] OTHER -> Null

\* IP.addParts
IP_addParts(h, parts) ==
    IF parts = Null THEN Null
    ELSE IP_addParts_sum(Len(parts.a),
                         [i \in 1..Len(parts.a) |->
                            ToNumberPrim(IP_parsePart(h, parts.a[i]))])

\* the value IP.parse tests
IP_parse_value(h, input) ==
    IF IsNumber(input) THEN input
    ELSE IF IsIP(input) THEN h[input.id].value
    ELSE IP_addParts(h, IP_splitParts(h, input))

\* IP.parse without the test against IP.MAX_VALUE
IP_parse_result_NoMax(value) ==
    IF \/ value = Null
       \/ value.k = "NaN"
       \/ NumLt(value, IP_MIN_VALUE)
    THEN Null ELSE MathFloor(value)

\* the test of IP.parse
IP_parse_result(value) ==
    IF \/ value = Null
       \/ value.k = "NaN"
       \/ NumGt(value, IP_MAX_VALUE)
       \/ NumLt(value, IP_MIN_VALUE)
    THEN Null ELSE MathFloor(value)

\* IP.parse
IP_parse(h, input) == IP_parse_result(IP_parse_value(h, input))

\* Math.floor(input / 0x100^n) % 0x100
IP_getParts_part(v, n) ==
    Big(BigOfInt(BigModSmall(SubSeq(v.m, n + 1, Len(v.m)), 256)))

\* IP.getParts with the low byte first
IP_getParts_value_LowFirst(v) ==
    IF v = Null THEN Null
    ELSE Arr([i \in 1..4 |-> IP_getParts_part(v, i - 1)])

IP_getParts_value(v) ==
    IF v = Null THEN Null
    ELSE Arr([i \in 1..4 |-> IP_getParts_part(v, 4 - i)])

\* IP.getParts
IP_getParts(h, input) == IP_getParts_value(IP_parse(h, input))

\* String.prototype.toLowerCase on the letters of the alphabet in use
UpperCase == <<"A","B","C","D","E","F","H","O","X">>
LowerCase == <<"a","b","c","d","e","f","h","o","x">>

ToLowerCase(s) ==
    [i \in 1..Len(s) |->
        IF \E j \in 1..Len(UpperCase) : UpperCase[j] = s[i]
        THEN LowerCase[CHOOSE j \in 1..Len(UpperCase) : UpperCase[j] = s[i]]
        ELSE s[i]]

IP_parseRadix_string(low) ==
    CASE low # <<>> /\ low[1] = "o" -> Big(<<8>>)
      [] low # <<>> /\ low[1] = "d" -> Big(<<10>>)
      [] low # <<>> /\ low[1] = "h" -> Big(<<16>>)
      [] OTHER                      -> Null

\* IP.parseRadix reading the first character without toLowerCase
IP_parseRadix_num_CaseSensitive(rad, numRad) ==
    IF numRad.k # "NaN"
    THEN IF numRad \in {Big(<<8>>), Big(<<10>>), Big(<<16>>)} THEN numRad ELSE Null
    ELSE IP_parseRadix_string(ToStringPrim(rad))

IP_parseRadix_num(rad, numRad) ==
    IF numRad.k # "NaN"
    THEN IF numRad \in {Big(<<8>>), Big(<<10>>), Big(<<16>>)} THEN numRad ELSE Null
    ELSE IP_parseRadix_string(ToLowerCase(ToStringPrim(rad)))

\* IP.parseRadix
IP_parseRadix(h, rad) == IP_parseRadix_num(rad, ToNumber(h, rad))

\* IP.parseRadix(rad) || 10
RadixOr10(r) == IF r = Null THEN Big(<<10>>) ELSE r

\* IP.formatPart writing octal without its leading 0
IP_formatPart_switch_NoPrefix(p, r) ==
    IF p = Null THEN Null
    ELSE CASE r = Big(<<8>>)  -> Str(NumberToString(p, 8))
           [] r = Big(<<10>>) -> Str(NumberToString(p, 10))
           [] r = Big(<<16>>) -> Str(<<"0", "x">> \o NumberToString(p, 16))
           [] OTHER           -> Null

\* the switch of IP.formatPart
IP_formatPart_switch(p, r) ==
    IF p = Null THEN Null
    ELSE CASE r = Big(<<8>>)  -> Str(<<"0">> \o NumberToString(p, 8))
           [] r = Big(<<10>>) -> Str(NumberToString(p, 10))
           [] r = Big(<<16>>) -> Str(<<"0", "x">> \o NumberToString(p, 16))
           [] OTHER           -> Null

\* IP.formatPart
IP_formatPart(h, part, rad) ==
    IP_formatPart_switch(IP_parsePart(h, part), RadixOr10(IP_parseRadix(h, rad)))

\* an element of the array as Array.prototype.join writes it
JoinElement(x) == IF x = Null THEN <<>> ELSE ToStringPrim(x)

\* IP.format once the input is parsed and the radix resolved
IP_format_value(h, v, r) ==
    IF v = Null THEN Null
    ELSE Str(Join([i \in 1..4 |->
                     JoinElement(IP_formatPart(h, IP_getParts(h, v).a[i], r))], "."))

\* IP.format
IP_format(h, input, rad) ==
    IP_format_value(h, IP_parse(h, input), RadixOr10(IP_parseRadix(h, rad)))

\* IP.equal
IP_equal(h, left, right) == Bool(IP_parse(h, left) = IP_parse(h, right))

----------------------------------------------------------------------------
(* Instances.  The heap holds the instances in order of construction;      *)
(* Ref(i) is a reference to the i-th.                                      *)

\* left < right and left > right on the results of IP.parse, null being 0
Less(left, right) == NumLt(ToNumberPrim(left), ToNumberPrim(right))
LessEq(left, right) == NumLte(ToNumberPrim(left), ToNumberPrim(right))

\* IP.compare returning 1 after left < right and -1 after left > right
IP_compare_values_Swapped(left, right) ==
    IF Less(left, right) THEN Big(<<1>>)
    ELSE IF Less(right, left) THEN NegBig(<<1>>)
    ELSE Big(<<>>)

IP_compare_values(left, right) ==
    IF Less(left, right) THEN NegBig(<<1>>)
    ELSE IF Less(right, left) THEN Big(<<1>>)
    ELSE Big(<<>>)

\* IP.compare
IP_compare(h, left, right) == IP_compare_values(IP_parse(h, left), IP_parse(h, right))

\* IP.lt, IP.lte, IP.gt, IP.gte
IP_lt(h, left, right)  == Bool(Less(IP_parse(h, left), IP_parse(h, right)))
IP_lte(h, left, right) == Bool(LessEq(IP_parse(h, left), IP_parse(h, right)))
IP_gt(h, left, right)  == Bool(Less(IP_parse(h, right), IP_parse(h, left)))
IP_gte(h, left, right) == Bool(LessEq(IP_parse(h, right), IP_parse(h, left)))

\* the constructor assigning the value to the last instance as well
IP_new_Assign(h, input) ==
    [i \in 1..(Len(h) + 1) |->
        IF i < Len(h) THEN h[i]
        ELSE [cls |-> IF i = Len(h) THEN h[i].cls ELSE "IP",
              value |-> IP_parse(h, IF Truthy(input) THEN input ELSE Big(<<>>))]]

\* the constructor IP(input): the heap after `new IP(input)`
IP_new(h, input) ==
    Append(h, [cls |-> "IP",
               value |-> IP_parse(h, IF Truthy(input) THEN input ELSE Big(<<>>))])

\* IP(input) called without new
IP_call(h, input) == IP_new(h, input)

\* IP.prototype.valueOf returning this.value as it is
IP_prototype_valueOf_Raw(h, this) == h[this.id].value

\* IP.prototype.valueOf
IP_prototype_valueOf(h, this) == ToNumberPrim(h[this.id].value)

\* IP.isValid testing isNaN(value) alone
IP_isValid_value_NaN(value) == Bool(~(ToNumberPrim(value).k = "NaN"))

IP_isValid_value(value) == Bool(~(value = Null \/ ToNumberPrim(value).k = "NaN"))

\* IP.isValid
IP_isValid(h, input) == IP_isValid_value(IP_parse(h, input))

\* the instance methods, which pass this as the first argument
IP_prototype_format(h, this, rad)  == IP_format(h, this, rad)
IP_prototype_isValid(h, this)      == IP_isValid(h, this)
IP_prototype_lt(h, this, other)    == IP_lt(h, this, other)
IP_prototype_lte(h, this, other)   == IP_lte(h, this, other)
IP_prototype_gt(h, this, other)    == IP_gt(h, this, other)
IP_prototype_gte(h, this, other)   == IP_gte(h, this, other)

----------------------------------------------------------------------------
(* The ordering functions of src/ip.js, which declare one parameter,       *)
(* other, and read left and right.                                         *)

\* the names a body of these functions can resolve: the parameter, and IP
\* of the enclosing function
FunctionScope(other) == [n \in {"IP", "other"} |-> IF n = "other" THEN other ELSE Undefined]

\* the value of an identifier; one that no scope declares throws
Lookup(scope, n) == IF n \in DOMAIN scope THEN scope[n] ELSE ReferenceError

\* left = IP.parse(left); right = IP.parse(right); return left < right;
\* and the like
Legacy_order(h, f, left, right) ==
    IF left = ReferenceError THEN ReferenceError
    ELSE IF right = ReferenceError THEN ReferenceError
    ELSE CASE f = "lt"  -> IP_lt(h, left, right)
           [] f = "lte" -> IP_lte(h, left, right)
           [] f = "gt"  -> IP_gt(h, left, right)
           [] OTHER     -> IP_gte(h, left, right)

Legacy_scope(h, f, scope) == Legacy_order(h, f, Lookup(scope, "left"), Lookup(scope, "right"))

\* IP.lt, IP.lte, IP.gt, IP.gte of src/ip.js
Legacy_IP_lt(h, other)  == Legacy_scope(h, "lt", FunctionScope(other))
Legacy_IP_lte(h, other) == Legacy_scope(h, "lte", FunctionScope(other))
Legacy_IP_gt(h, other)  == Legacy_scope(h, "gt", FunctionScope(other))
Legacy_IP_gte(h, other) == Legacy_scope(h, "gte", FunctionScope(other))

\* the instance methods of src/ip.js: IP.lt(this, other) binds this to the
\* one parameter
Legacy_prototype_lt(h, this, other)  == Legacy_IP_lt(h, this)
Legacy_prototype_lte(h, this, other) == Legacy_IP_lte(h, this)
Legacy_prototype_gt(h, this, other)  == Legacy_IP_gt(h, this)
Legacy_prototype_gte(h, this, other) == Legacy_IP_gte(h, this)

\* IP.parsePart of src/ip.js, which assigns result without declaring it:
\* outside strict mode the assignment makes, or writes, a property of the
\* global object.  g is the properties the library has made so far.
NoGlobals == [n \in {} |-> Undefined]

\* name = value for a name that no scope declares
AssignUndeclared(g, name, value) ==
    [n \in DOMAIN g \cup {name} |-> IF n = name THEN value ELSE g[n]]

Legacy_parsePart_radix(p) ==
    IF p # <<>> /\ p[1] = "0"
    THEN IF Len(p) >= 2 /\ p[2] = "x" THEN 16 ELSE 8
    ELSE 10

\* result = parseInt(part, radix); return result;
Legacy_parsePart_assign(g) == [ret |-> g["result"], globals |-> g]

Legacy_parsePart_string(g, p) ==
    Legacy_parsePart_assign(
        AssignUndeclared(g, "result", parseInt(p, Legacy_parsePart_radix(p))))

Legacy_IP_parsePart(g, part) ==
    IF IsNumber(part) THEN [ret |-> part, globals |-> g]
    ELSE Legacy_parsePart_string(g, ToLowerCase(ToStringPrim(part)))

\* `new IP(x)` as the result of a static function, before it is allocated
New(x) == [t |-> "new", input |-> x]

\* IP.next testing value > IP.MAX_VALUE
IP_next_value_Gt(value) ==
    IF NumGt(value, IP_MAX_VALUE) THEN Null ELSE New(NumAdd(value, Big(<<1>>)))

IP_next_value(value) ==
    IF NumGte(value, IP_MAX_VALUE) THEN Null ELSE New(NumAdd(value, Big(<<1>>)))

\* IP.next
IP_next(h, ip) == IP_next_value(ToNumberPrim(IP_parse(h, ip)))

\* IP.prev constructing new IP(value + 1) as IP.next does
IP_prev_value_Plus(value) ==
    IF NumLte(value, IP_MIN_VALUE) THEN Null ELSE New(NumAdd(value, Big(<<1>>)))

IP_prev_value(value) ==
    IF NumLte(value, IP_MIN_VALUE) THEN Null ELSE New(NumAdd(value, NegBig(<<1>>)))

\* IP.prev
IP_prev(h, ip) == IP_prev_value(ToNumberPrim(IP_parse(h, ip)))

\* IP.not adding -part & 0xff
RECURSIVE IP_not_reduce_Negate(_, _, _)
IP_not_reduce_Negate(total, parts, i) ==
    IF i > Len(parts) THEN total
    ELSE IP_not_reduce_Negate(NumAdd(NumMul(total, W8),
                                     Big(BigOfInt((0 - SmallOf(parts[i].m)) % 256))),
                              parts, i + 1)

\* the callback of parts.reduce in IP.not
RECURSIVE IP_not_reduce(_, _, _)
IP_not_reduce(total, parts, i) ==
    IF i > Len(parts) THEN total
    ELSE IP_not_reduce(NumAdd(NumMul(total, W8),
                              Big(BigOfInt((0 - SmallOf(parts[i].m) - 1) % 256))),
                       parts, i + 1)

IP_not_parts(parts) ==
    IF parts = Null THEN TypeError ELSE New(IP_not_reduce(Big(<<>>), parts.a, 1))

\* IP.not
IP_not(h, ip) == IP_not_parts(IP_getParts(h, IP_parse(h, ip)))

\* x & y on two octets
RECURSIVE AndBits(_, _, _)
AndBits(x, y, k) ==
    IF k = 0 THEN 0
    ELSE (IF x % 2 = 1 /\ y % 2 = 1 THEN 1 ELSE 0)
         + 2 * AndBits(x \div 2, y \div 2, k - 1)

\* the 32 bits of ToInt32(v), as four octets with the lowest first, for null
\* and for an integer that is not negative
Int32Bits(v) ==
    IF v = Null THEN <<0, 0, 0, 0>>
    ELSE [i \in 1..4 |-> IF i <= Len(v.m) THEN v.m[i] ELSE 0]

\* the signed number that 32 bits stand for
Int32Of(bits) ==
    IF bits[4] >= 128 THEN NegBig(BigSub(<<0, 0, 0, 0, 1>>, Norm(bits)))
    ELSE Big(Norm(bits))

\* x & y on 32 bits
BitAnd32(x, y) == Int32Of([i \in 1..4 |-> AndBits(x[i], y[i], 8)])

\* ip & mask
IP_getClass_and(ip, mask) == BitAnd32(Int32Bits(ip), Int32Bits(mask))

\* the test of IP.getClass taking a cleared bit for one that is not above 0
IP_getClass_clear_NotAbove(masked) == ~NumGt(masked, Big(<<>>))

\* (ip & mask) === 0
IP_getClass_clear(masked) == masked = Big(<<>>)

\* IP.getClass once the input is parsed
IP_getClass_value(ip) ==
    IF IP_getClass_clear(IP_getClass_and(ip, Big(<<0, 0, 0, 128>>))) THEN Str(<<"A">>)
    ELSE IF IP_getClass_clear(IP_getClass_and(ip, Big(<<0, 0, 0, 64>>))) THEN Str(<<"B">>)
    ELSE IF IP_getClass_clear(IP_getClass_and(ip, Big(<<0, 0, 0, 32>>))) THEN Str(<<"C">>)
    ELSE IF IP_getClass_clear(IP_getClass_and(ip, Big(<<0, 0, 0, 16>>))) THEN Str(<<"D">>)
    ELSE Str(<<"E">>)

\* IP.getClass
IP_getClass(h, ip) == IP_getClass_value(IP_parse(h, ip))

\* the methods of an instance that hand it to the static functions
IP_prototype_toString(h, this, rad) == IP_prototype_format(h, this, rad)
IP_prototype_next(h, this)           == IP_next(h, this)
IP_prototype_prev(h, this)           == IP_prev(h, this)
IP_prototype_not(h, this)            == IP_not(h, this)
IP_prototype_equals(h, this, other)  == IP_equal(h, this, other)
IP_prototype_compare(h, this, other) == IP_compare(h, this, other)

----------------------------------------------------------------------------
(* Mask.  An operator that constructs an instance on its way returns its   *)
(* result together with the heap it leaves.                                *)

Mask_MIN_VALUE == Big(<<>>)
Mask_MAX_VALUE == Big(<<32>>)

\* the number of binary digits of a magnitude
BitLength(m) ==
    IF m = <<>> THEN 0
    ELSE 8 * (Len(m) - 1)
         + (CHOOSE k \in 1..8 : 2 ^ k > m[Len(m)] /\ 2 ^ (k - 1) <= m[Len(m)])

\* Math.ceil(Math.log(x) / Math.LN2) for an integer x in [1, 2^32] of
\* magnitude m.  Math.log is approximated: where x is 2^29 or 2^31 the
\* quotient of the nearest doubles is 29.000000000000004 or
\* 31.000000000000004, and a build whose Math.log rounds so gives k + 1.
CeilLog2_above(m, e) ==
    IF BitLength(m) # e /\ e \in {29, 31} THEN e + 1 ELSE e

CeilLog2(m, build) ==
    IF build = "above" THEN CeilLog2_above(m, BitLength(BigSub(m, <<1>>)))
    ELSE BitLength(BigSub(m, <<1>>))

\* Number(input) for an instance of IP or Mask (valueOf) or another value
NumberOf(h, input) == ToNumberPrim(IF input.t = "object" THEN h[input.id].value ELSE input)

\* the string of IP.prototype.toString, given the result of this.format()
FormattedString(f) == IF f = Null THEN <<"n", "u", "l", "l">> ELSE f.s

\* String(input)
StringOf(h, input) ==
    IF IsIP(input) THEN FormattedString(IP_format(h, input, Undefined))
    ELSE ToStringPrim(input)

\* Mask.MAX_VALUE - bits
Mask_parse_value(bits) ==
    IF bits <= 32 THEN Big(BigOfInt(32 - bits)) ELSE NegBig(BigOfInt(bits - 32))

\* bits and value of Mask.parse; inverse is the last instance of h
Mask_parse_bits(h, build) ==
    [ret |-> Mask_parse_value(CeilLog2(NumAdd(NumberOf(h, Ref(Len(h))), Big(<<1>>)).m, build)),
     heap |-> h]

\* Mask.parse after IP.not(input), which threw or constructed the inverse
Mask_parse_inverse(h, inverse, build) ==
    IF inverse.t = "throw" THEN [ret |-> inverse, heap |-> h]
    ELSE Mask_parse_bits(IP_new(h, inverse.input), build)

\* !isNaN(input) && input <= Mask.MAX_VALUE
Mask_parse_accepts(n) == n.k # "NaN" /\ NumLte(n, Mask_MAX_VALUE)

\* Mask.parse
RECURSIVE Mask_parse(_, _, _)
\* Mask.parse taking the text before the slash
Mask_parse_slash_Before(h, str, slashIndex, build) ==
    IF slashIndex > 0
    THEN Mask_parse(h, Str(SubSeq(str, 1, slashIndex - 1)), build)
    ELSE Mask_parse_inverse(h, IP_not(h, Str(str)), build)

Mask_parse_slash(h, str, slashIndex, build) ==
    IF slashIndex > 0
    THEN Mask_parse(h, Str(SubSeq(str, slashIndex + 1, Len(str))), build)
    ELSE Mask_parse_inverse(h, IP_not(h, Str(str)), build)

Mask_parse_string(h, str, build) == Mask_parse_slash(h, str, IndexOf(str, {"/"}), build)

Mask_parse_number(h, input, n, build) ==
    IF Mask_parse_accepts(n) THEN [ret |-> n, heap |-> h]
    ELSE Mask_parse_string(h, StringOf(h, input), build)

Mask_parse(h, input, build) ==
    IF input = Null THEN [ret |-> Null, heap |-> h]
    ELSE Mask_parse_number(h, input, NumberOf(h, input), build)

\* the constructor Mask(input), given Mask.parse(input || 0): an instance
\* unless Mask.parse threw
Mask_new_parsed(parsed) ==
    IF parsed.ret.t = "throw" THEN parsed
    ELSE [ret |-> MaskRef(Len(parsed.heap) + 1),
          heap |-> Append(parsed.heap, [cls |-> "Mask", value |-> parsed.ret])]

Mask_new(h, input, build) ==
    Mask_new_parsed(Mask_parse(h, IF Truthy(input) THEN input ELSE Big(<<>>), build))

\* the magnitude of 2^e
Pow2(e) == BigShift(<<2 ^ (e % 8)>>, e \div 8)

\* Math.pow(2, Mask.MAX_VALUE - input) - 1 for an integer or infinite input
Mask_format_value(input) ==
    IF input.k = "inf" THEN (IF input.neg THEN Infinity ELSE NegBig(<<1>>))
    ELSE IF input.neg THEN Big(BigSub(Pow2(32 + SmallOf(input.m)), <<1>>))
    ELSE Big(BigSub(Pow2(32 - SmallOf(input.m)), <<1>>))

\* IP.format(inverse); inverse is the last instance of h
Mask_format_formatted(h) == [ret |-> IP_format(h, Ref(Len(h)), Undefined), heap |-> h]

\* Mask.format after IP.not(value), which threw or constructed the inverse
Mask_format_inverse(h, inverse) ==
    IF inverse.t = "throw" THEN [ret |-> inverse, heap |-> h]
    ELSE Mask_format_formatted(IP_new(h, inverse.input))

\* Mask.format after Mask.parse(input)
Mask_format_parsed(parsed) ==
    IF parsed.ret.t = "throw" THEN parsed
    ELSE IF parsed.ret = Null \/ parsed.ret.k = "NaN"
    THEN [ret |-> Null, heap |-> parsed.heap]
    ELSE Mask_format_inverse(parsed.heap,
                             IP_not(parsed.heap, Mask_format_value(parsed.ret)))

\* Mask.format
Mask_format(h, input, build) == Mask_format_parsed(Mask_parse(h, input, build))

\* Mask.equal after both calls of Mask.parse
Mask_equal_parsed(left, right) ==
    IF right.ret.t = "throw" THEN right
    ELSE [ret |-> Bool(left.ret = right.ret), heap |-> right.heap]

\* Mask.equal after Mask.parse(left)
Mask_equal_left(left, right, build) ==
    IF left.ret.t = "throw" THEN left
    ELSE Mask_equal_parsed(left, Mask_parse(left.heap, right, build))

\* Mask.equal
Mask_equal(h, left, right, build) ==
    Mask_equal_left(Mask_parse(h, left, build), right, build)

----------------------------------------------------------------------------
(* IP.random.  Math.random() is the double m / 2^53 for a magnitude m      *)
(* below 2^53; the product with IP.MAX_VALUE is rounded to a double, to    *)
(* the nearest and to even at a tie.  A product that is no integer is      *)
(* written as its floor and a half, which is below, above and floored as   *)
(* every number between the same two integers is.                          *)

\* the magnitude of floor(a / 2^e)
DivPow2(a, e) == BigDivSmall(SubSeq(a, e \div 8 + 1, Len(a)), 2 ^ (e % 8))

\* the quotient q of p by 2^s is rounded up: over a half is left, or a half
\* and q is odd
RoundsUp(q, rem, half) ==
    BigCmp(rem, half) > 0 \/ (rem = half /\ q # <<>> /\ q[1] % 2 = 1)

Rounded(p, s, q) ==
    IF s > 0 /\ RoundsUp(q, BigSub(p, BigMul(q, Pow2(s))), Pow2(s - 1))
    THEN BigAdd(q, <<1>>) ELSE q

\* the number q / 2^e
Scaled(q, e, floor) ==
    IF BigMul(floor, Pow2(e)) = q THEN Big(floor) ELSE Frac(floor)

\* the double nearest to p / 2^53, for p of 53 + s bits
DoubleOf(p, s) == Scaled(Rounded(p, s, DivPow2(p, s)), 53 - s,
                         DivPow2(Rounded(p, s, DivPow2(p, s)), 53 - s))

\* a product that can exceed IP.MAX_VALUE
IP_random_product_Over(m) == BigMul(<<1, 0, 0, 0, 1>>, m)

\* the numerator of IP.MAX_VALUE * Math.random() over 2^53
IP_random_product(m) == BigMul(IP_MAX_VALUE.m, m)

\* IP.MAX_VALUE * Math.random()
IP_random_value(p) == DoubleOf(p, IF BitLength(p) > 53 THEN BitLength(p) - 53 ELSE 0)

\* IP.random, given what Math.random() returns
IP_random(h, m) == IP_format(h, IP_random_value(IP_random_product(m)), Undefined)

----------------------------------------------------------------------------
(* Bounds and inputs.                                                      *)

\* the longest dotted string has MaxParts parts
MaxParts == 5
\* the most instances that the calls given instances construct in one run
MaxHeap == 2

\* all dotted strings of n parts drawn from pool
RECURSIVE Dotted(_, _)
Dotted(pool, n) ==
    IF n = 1 THEN pool
    ELSE {p \o <<".">> \o q : p \in pool, q \in Dotted(pool, n - 1)}

\* dotted strings of n parts from pool, one of them replaced by a part of odd
DottedWith(pool, odd, n) ==
    {Join([j \in 1..n |-> IF j = i THEN b ELSE f[j]], ".") :
        i \in 1..n, b \in odd, f \in [1..n -> pool]}

\* numerals that read as complete numbers in their radix
GoodParts ==
    { <<"0">>,
      <<"7", "4">>,
      <<"2", "5", "5">>,
      <<"0", "1", "1", "2">>,
      <<"0", "x", "4", "A">>,
      <<"0", "X", "f", "F">> }
FewParts ==
    { <<"1">>,
      <<"0", "x", "4", "A">> }
\* numerals of more than one octet, for the compressed notations
WideParts ==
    { <<"2", "5", "6">>,
      <<"6", "5", "5", "3", "6">>,
      <<"1", "6", "7", "7", "7", "2", "1", "5">>,
      <<"1", "6", "7", "7", "7", "2", "1", "6">>,
      <<"4", "2", "9", "4", "9", "6", "7", "2", "9", "5">>,
      <<"4", "2", "9", "4", "9", "6", "7", "2", "9", "6">>,
      <<"0", "x", "1", "0", "0">> }
\* parts that are no complete numeral
BadParts ==
    { <<>>,
      <<"-", "1">>,
      <<"0", "8">>,
      <<"0", "1", "9">>,
      <<"1", "2", "a">>,
      <<"1", "e", "3">>,
      <<"0", "x">>,
      <<"0", "x", "1", "g">> }

\* the numeral of the number n in the given radix, as one part of an address
Numeral(n, radix) ==
    CASE radix = 8  -> <<"0">> \o NumberToString(n, 8)
      [] radix = 16 -> <<"0", "x">> \o NumberToString(n, 16)
      [] OTHER      -> NumberToString(n, 10)

\* the dotted and flat encodings of the address a.b.c.d
Encodings(o) ==
    {Join([i \in 1..4 |-> Numeral(Big(BigOfInt(o[i])), r[i])], ".") :
        r \in [1..4 -> {8, 10, 16}]}
    \cup {Numeral(Addr(o[1], o[2], o[3], o[4]), r) : r \in {8, 10, 16}}

GOOGLE == <<74, 125, 226, 4>>
LAN    == <<192, 168, 0, 58>>

\* the encodings the tests of IP.parse use
TestEncodings(o) ==
    IF o = GOOGLE
    THEN { <<"7", "4", ".", "1", "2", "5", ".", "2", "2", "6", ".", "4">>,
           <<"1", "2", "4", "9", "7", "6", "3", "8", "4", "4">>,
           <<"0", "1", "1", "2", ".", "0", "1", "7", "5", ".", "0", "3", "4", "2", ".", "0", "0", "0", "4">>,
           <<"0", "1", "1", "2", "3", "7", "3", "6", "1", "0", "0", "4">>,
           <<"0", "x", "4", "A", ".", "0", "x", "7", "D", ".", "0", "x", "E", "2", ".", "0", "x", "0", "4">>,
           <<"0", "x", "4", "A", "7", "D", "E", "2", "0", "4">>,
           <<"7", "4", ".", "0", "1", "7", "5", ".", "0", "x", "e", "2", ".", "4">> }
    ELSE { <<"1", "9", "2", ".", "1", "6", "8", ".", "0", "7", "2">>,
           <<"1", "9", "2", ".", "1", "6", "8", ".", "0", ".", "0", "7", "2">>,
           <<"1", "9", "2", ".", "1", "6", "8", ".", "0", ".", "5", "8">> }

GoogleEncodings == Encodings(GOOGLE) \cup TestEncodings(GOOGLE)
LanEncodings    == Encodings(LAN) \cup TestEncodings(LAN)
EncodingsOf(o)  == IF o = GOOGLE THEN GoogleEncodings ELSE LanEncodings

\* the compressed encoding of a.b.c.d: a.b.c.d, a.b.(c,d), a.(b,c,d), (a,b,c,d)
Compressed(o, n) ==
    Join([i \in 1..n |-> IF i < n THEN Numeral(Big(BigOfInt(o[i])), 10)
                         ELSE Numeral(Big(Norm([j \in 1..(5 - n) |-> o[5 - j]])), 10)], ".")

StrInputs ==
    UNION {Dotted(GoodParts, n) : n \in 1..4}
    \cup UNION {DottedWith(FewParts, BadParts \cup WideParts, n) : n \in 1..4}
    \cup UNION {Dotted(FewParts \cup {<<>>}, n) : n \in 5..MaxParts}
    \cup EncodingsOf(GOOGLE) \cup EncodingsOf(LAN)

NumInputs ==
    { Big(<<>>), Big(<<1>>), Addr(74, 125, 226, 4), Addr(192, 168, 0, 255),
      Addr(127, 255, 255, 255), Addr(128, 0, 0, 0), Addr(255, 255, 255, 254),
      IP_MAX_VALUE, Big(<<0, 0, 0, 0, 1>>), NegBig(<<1>>), NaN, Infinity,
      NegInfinity, Frac(<<1>>), Frac(<<255, 255, 255, 255>>), NegFrac(<<>>) }

Octets == {0, 4, 8, 255}
AddrValues == {Addr(a, b, c, d) : a \in Octets, b \in Octets, c \in Octets, d \in Octets}

RadixInputs ==
    { Undefined, Null, Big(<<8>>), Big(<<10>>), Big(<<16>>), Big(<<2>>),
      Str(<<"8">>), Str(<<"1", "6">>), Str(<<"o", "c", "t">>),
      Str(<<"H", "E", "X">>), Str(<<"d", "e", "c">>), Str(<<"x">>), Str(<<>>) }

\* what IP.parseRadix is called with: the radices of the tests, and other
\* numbers and strings
ParseRadixInputs ==
    RadixInputs
    \cup { Big(<<1>>), Big(<<7>>), Big(<<100>>), Big(<<>>), NaN, Infinity, NegBig(<<8>>),
           Frac(<<8>>), True, False,
           Str(<<"1", "0">>), Str(<<"2">>), Str(<<"1", "0", "0">>),
           Str(<<"0", "x", "1", "0">>), Str(<<"0", "1", "0">>), Str(<<"1", "e", "1">>),
           Str(<<" ", "8">>), Str(<<"8", ".", "0">>), Str(<<"8", ".", "5">>),
           Str(<<"O">>), Str(<<"o">>), Str(<<"D">>), Str(<<"h">>), Str(<<"h", "8">>),
           Str(<<"d", "1", "6">>), Str(<<" ", "o", "c", "t">>), Str(<<"b", "i", "n">>),
           Str(<<"8", "o">>), Str(<<"I", "n", "f", "i", "n", "i", "t", "y">>) }

\* what the ordering functions are called with
OrderInputs ==
    { Big(<<>>), Big(<<1>>), Addr(127, 255, 255, 255), Addr(128, 0, 0, 0), IP_MAX_VALUE,
      Str(<<"0">>), Str(<<"0", ".", "0", ".", "0", ".", "1">>),
      Str(<<"0", "x", "4", "A", "7", "D", "E", "2", "0", "4">>),
      Str(<<"7", "4", ".", "1", "2", "5", ".", "2", "2", "6", ".", "4">>),
      Str(<<"1", "9", "2", ".", "1", "6", "8", ".", "0", "7", "2">>),
      Str(<<"2", "5", "5", ".", "2", "5", "5", ".", "2", "5", "5", ".", "2", "5", "5">>),
      Str(<<"1", ".", "2", ".", "3", ".", "4", ".", "5">>), Null, NegBig(<<1>>) }

\* what the constructor is called with before a method of the instance is
ReceiverInputs ==
    { Undefined, Null, Big(<<>>), Str(<<>>), NaN, False,
      Str(<<"1", ".", "2", ".", "3", ".", "4", ".", "5">>), Str(<<"0", "8", ".", "x">>),
      Big(<<0, 0, 0, 0, 1>>),
      Str(<<"0", ".", "0", ".", "0", ".", "0">>), Big(<<1>>), Addr(128, 0, 0, 0),
      Str(<<"1", "9", "2", ".", "1", "6", "8", ".", "0", ".", "5", "8">>), IP_MAX_VALUE }

\* the methods of an instance that compare it with another input
OrderMethods ==
    { "a.lt", "a.lte", "a.gt", "a.gte",
      "ip.js a.lt", "ip.js a.lte", "ip.js a.gt", "ip.js a.gte" }

IsValidInputs ==
    NumInputs \cup {Null, Undefined}
    \cup {Str(Compressed(o, n)) : o \in {GOOGLE, LAN}, n \in 1..4}
    \cup {Str(s) : s \in DottedWith(FewParts, BadParts, 2)}
    \cup {Str(s) : s \in Dotted(FewParts \cup {<<>>}, 5)}

\* what IP.getClass is called with: the ends of the five classes, addresses
\* inside them and values that are no address
ClassInputs ==
    { Big(<<>>), Addr(127, 255, 255, 255), Addr(128, 0, 0, 0), Addr(191, 255, 255, 255),
      Addr(192, 0, 0, 0), Addr(223, 255, 255, 255), Addr(224, 0, 0, 0),
      Addr(239, 255, 255, 255), Addr(240, 0, 0, 0), Addr(255, 255, 255, 255),
      Frac(<<255, 255, 255, 127>>), Frac(<<255, 255, 255, 191>>),
      Big(<<0, 0, 0, 0, 1>>), NegBig(<<1>>), NaN, Null, Undefined,
      Str(<<"1", ".", "2", ".", "3", ".", "4", ".", "5">>) }
    \cup {Str(e) : e \in GoogleEncodings \cup LanEncodings}
    \cup {Str(Join([i \in 1..4 |-> Numeral(Big(BigOfInt(o[i])), 10)], ".")) :
            o \in {<<10, 0, 0, 1>>, <<172, 16, 0, 1>>, <<192, 168, 0, 58>>,
                    <<224, 0, 0, 1>>, <<240, 0, 0, 1>>, <<255, 255, 255, 255>>}}

\* what Math.random() returns, as numerators over 2^53: the ends, the powers
\* of two and numerators of every length
RandomDraws ==
    {Norm(<<a, b, 0, c, 0, d, e>>) :
        a \in {0, 1, 255}, b \in {0, 128}, c \in {0, 129}, d \in {0, 255}, e \in {0, 1, 16, 31}}
    \cup {Pow2(n) : n \in {20, 21, 22, 31, 32, 52}}
    \cup {BigSub(Pow2(53), Pow2(n)) : n \in {0, 1, 20, 21, 22}}

\* the builds of Math.log: one whose quotient at 2^29 and 2^31 is the
\* integer, one whose quotient is just above it
Builds == {"exact", "above"}

\* the octets of the mask of n leading 1-bits, the highest first
MaskOctets(n) ==
    [i \in 1..4 |->
        IF n >= 8 * i THEN 255
        ELSE IF n <= 8 * (i - 1) THEN 0
        ELSE 256 - 2 ^ (8 * i - n)]

\* the dotted decimal string of the mask of n leading 1-bits
MaskText(n) == Join([i \in 1..4 |-> Numeral(Big(BigOfInt(MaskOctets(n)[i])), 10)], ".")

\* what Mask.parse and the constructor Mask are called with
MaskInputs ==
    {Str(MaskText(n)) : n \in 0..32} \cup
    { Big(<<8>>), Big(<<>>), Big(<<32>>), Big(<<33>>), NegBig(<<1>>), Frac(<<1>>), NaN,
      NegInfinity, Infinity, Addr(255, 255, 255, 0), Null, Undefined, True,
      Str(<<"8">>), Str(<<"-", "1">>), Str(<<>>), Str(<<"3", "2">>),
      Str(<<"1", "2", "7", ".", "0", ".", "0", ".", "1", "/", "8">>),
      Str(<<"1", ".", "2", ".", "3", ".", "4", "/", "3", "3">>),
      Str(<<"1", "0", ".", "0", ".", "0", ".", "0", "/">>),
      Str(<<"a", "/", "b", "/", "2", "4">>),
      Str(<<"x", "/", "8">>),
      Str(<<"8", "/", "1", "2", "7", ".", "0", ".", "0", ".", "1">>),
      Str(<<"8", "/", "1", ".", "2", ".", "3", ".", "4", ".", "5">>),
      Str(<<"1", "/", "2", "/", "2", "2", "4", ".", "0", ".", "0", ".", "0">>),
      Str(<<"1", "/", "2", "5", "5", ".", "0", ".", "0", ".", "0">>),
      Str(<<"2", "5", "5", ".", "0", ".", "0", ".", "0">>),
      Str(<<"2", "5", "5", ".", "2", "5", "5", ".", "2", "5", "5", ".", "0">>),
      Str(<<"2", "5", "5", ".", "2", "5", "5", ".", "2", "5", "5", ".", "2", "5", "5">>),
      Str(<<"2", "2", "4", ".", "0", ".", "0", ".", "0">>),
      Str(<<"1", "2", "8", ".", "0", ".", "0", ".", "0">>),
      Str(<<"0", ".", "0", ".", "0", ".", "0">>),
      Str(<<"2", "5", "5", ".", "0", ".", "2", "5", "5", ".", "0">>),
      Str(<<"1", "9", "2", ".", "1", "6", "8", ".", "0", ".", "5", "8">>),
      Str(<<"1", ".", "2", ".", "3", ".", "4", ".", "5">>) }

\* what Mask.format, and Mask before Mask.format, are called with
MaskFormatInputs ==
    {Big(BigOfInt(n)) : n \in 0..32}
    \cup { NegBig(<<1>>), Big(<<33>>), NaN, NegInfinity, Null, Undefined,
           Str(<<"2", "4">>),
           Str(<<"1", "2", "7", ".", "0", ".", "0", ".", "1", "/", "8">>),
           Str(<<"2", "5", "5", ".", "2", "5", "5", ".", "0", ".", "0">>),
           Str(<<"2", "2", "4", ".", "0", ".", "0", ".", "0">>),
           Str(<<"1", ".", "2", ".", "3", ".", "4", ".", "5">>) }

\* what Mask.equal is called with
MaskEqualInputs ==
    { Big(<<8>>), Big(<<24>>), Str(<<"8">>), Null, NegBig(<<1>>),
      Str(<<"2", "5", "5", ".", "0", ".", "0", ".", "0">>),
      Str(<<"1", "2", "7", ".", "0", ".", "0", ".", "1", "/", "8">>),
      Str(<<"1", ".", "2", ".", "3", ".", "4", ".", "5">>) }

FormatInputs ==
    NumInputs \cup {Null}
    \cup {Str(Compressed(o, n)) : o \in {GOOGLE, LAN}, n \in 1..4}
    \cup {Str(s) : s \in DottedWith(FewParts, BadParts, 2)}

ParseInputs == {Str(s) : s \in StrInputs} \cup NumInputs \cup {Null, Undefined}

EqualLeft == {Str(s) : s \in EncodingsOf(GOOGLE) \cup EncodingsOf(LAN)}
EqualRight ==
    {Str(Compressed(o, n)) : o \in {GOOGLE, LAN}, n \in 1..4}
    \cup {Str(Join([i \in 1..4 |-> Numeral(Big(BigOfInt(o[i])), r)], ".")) :
            o \in {GOOGLE, LAN}, r \in {8, 16}}
    \cup {Str(s) : s \in TestEncodings(GOOGLE) \cup TestEncodings(LAN)}
    \cup {Addr(74, 125, 226, 4), Addr(192, 168, 0, 58)}

PartInputs ==
    {Str(s) : s \in GoodParts \cup BadParts \cup WideParts}
    \cup {Big(<<>>), Big(<<4>>), Big(<<255>>), NaN, NegBig(<<1>>)}

\* what the constructor, next, prev and not are called with
ObjLiterals ==
    { Big(<<>>), Big(<<1>>), IP_MAX_VALUE, Addr(127, 255, 255, 255),
      Addr(255, 255, 255, 254),
      Str(<<"1", ".", "2", ".", "3", ".", "4", ".", "5">>),
      Str(<<"1", "9", "2", ".", "1", "6", "8", ".", "0", ".", "2", "5", "5">>) }

\* what else IP.parse is called with beside them
ObjParseLiterals ==
    { Null, Undefined, NaN, Infinity, NegBig(<<1>>), Big(<<0, 0, 0, 0, 1>>),
      Frac(<<1>>), Frac(<<255, 255, 255, 255>>), NegFrac(<<>>), Str(<<>>),
      Str(Compressed(GOOGLE, 2)), Str(<<"2", "5", "6", ".", "0", ".", "0", ".", "0">>) }

Refs(h) == {Ref(i) : i \in 1..Len(h)}

----------------------------------------------------------------------------
(* The state machine: one action per call of the library.  call is the     *)
(* last call with its arguments and result, prev the call whose result     *)
(* the last call was given, if any.  given is the call a script makes (a   *)
(* script is one call of a static function, and a second on its result).   *)

NoCall == [op |-> "none", args |-> <<>>, ret |-> Undefined]

\* the calls of the static functions the scripts make
Scripts ==
    {[op |-> "parse", args |-> <<x>>] : x \in ParseInputs}
    \cup {[op |-> "format", args |-> <<x, r>>] :
            x \in AddrValues, r \in {Undefined, Big(<<8>>), Big(<<10>>), Big(<<16>>)}}
    \cup {[op |-> "format", args |-> <<x, r>>] : x \in FormatInputs, r \in RadixInputs}
    \cup {[op |-> "formatPart", args |-> <<x, r>>] : x \in PartInputs, r \in RadixInputs}
    \cup {[op |-> "equal", args |-> <<x, y>>] : x \in EqualLeft, y \in EqualRight}
    \cup {[op |-> "parseRadix", args |-> <<x>>] : x \in ParseRadixInputs}
    \cup {[op |-> f, args |-> <<x, y>>] :
            f \in {"compare", "lt", "lte", "gt", "gte"}, x \in OrderInputs, y \in OrderInputs}
    \cup {[op |-> "isValid", args |-> <<x>>] : x \in IsValidInputs}
    \cup {[op |-> "getClass", args |-> <<x>>] : x \in ClassInputs}
    \cup {[op |-> f, args |-> <<x>>] :
            f \in {"ip.js parsePart", "ip.js parsePart twice"}, x \in PartInputs}
    \cup {[op |-> "random", args |-> <<Big(m)>>] : m \in RandomDraws}
    \cup {[op |-> f, args |-> <<x, y>>] :
            f \in OrderMethods, x \in ReceiverInputs, y \in OrderInputs}
    \cup {[op |-> f, args |-> <<x>>] :
            f \in {"a.valueOf", "a.isValid", "Mask.parse(a)", "a.toString", "a.next",
                    "a.prev", "a.not", "parse(a)"},
            x \in ReceiverInputs}
    \cup {[op |-> f, args |-> <<x, y>>] :
            f \in {"a.equals", "a.compare"}, x \in ReceiverInputs, y \in OrderInputs}
    \cup {[op |-> f, args |-> <<x>>] :
            f \in {"Mask.parse", "Mask", "Mask.parse(m)"}, x \in MaskInputs}
    \cup {[op |-> f, args |-> <<x>>] :
            f \in {"Mask.format", "Mask.format(m)"}, x \in MaskFormatInputs}
    \cup {[op |-> "Mask.equal", args |-> <<x, y>>] :
            x \in MaskEqualInputs, y \in MaskEqualInputs}
    \cup {[op |-> "a.format", args |-> <<x, r>>] :
            x \in ReceiverInputs, r \in {Undefined, Big(<<16>>)}}

NoScript == [op |-> "none", args |-> <<>>]

Init ==
    /\ heap = <<>>
    /\ given \in Scripts
    /\ call = NoCall
    /\ prev = NoCall
    /\ globals = NoGlobals

InitObj ==
    /\ heap = <<>>
    /\ given = NoScript
    /\ call = NoCall
    /\ prev = NoCall
    /\ globals = NoGlobals

Return(op, args, ret) ==
    /\ call' = [op |-> op, args |-> args, ret |-> ret]
    /\ prev' = NoCall
    /\ UNCHANGED <<given, globals>>

\* the call of a static function that returns null, throws or a new instance
Allocate(op, args, r) ==
    IF r.t = "new"
    THEN /\ heap' = IP_new(heap, r.input)
         /\ Return(op, args, Ref(Len(heap) + 1))
    ELSE /\ heap' = heap
         /\ Return(op, args, r)

\* the same for a call that is given the result of the last call
AllocateAfter(op, args, r) ==
    /\ call' = [op |-> op, args |-> args,
                ret |-> IF r.t = "new" THEN Ref(Len(heap) + 1) ELSE r]
    /\ heap' = IF r.t = "new" THEN IP_new(heap, r.input) ELSE heap
    /\ prev' = call
    /\ UNCHANGED <<given, globals>>

Parse(x) ==
    /\ Return("parse", <<x>>, IP_parse(heap, x))
    /\ UNCHANGED heap

Format(x, rad) ==
    /\ Return("format", <<x, rad>>, IP_format(heap, x, rad))
    /\ UNCHANGED heap

FormatPart(part, rad) ==
    /\ Return("formatPart", <<part, rad>>, IP_formatPart(heap, part, rad))
    /\ UNCHANGED heap

Equal(left, right) ==
    /\ Return("equal", <<left, right>>, IP_equal(heap, left, right))
    /\ UNCHANGED heap

ParseRadix(rad) ==
    /\ Return("parseRadix", <<rad>>, IP_parseRadix(heap, rad))
    /\ UNCHANGED heap

Compare(left, right) ==
    /\ Return("compare", <<left, right>>, IP_compare(heap, left, right))
    /\ UNCHANGED heap

Lt(left, right) ==
    /\ Return("lt", <<left, right>>, IP_lt(heap, left, right))
    /\ UNCHANGED heap

Lte(left, right) ==
    /\ Return("lte", <<left, right>>, IP_lte(heap, left, right))
    /\ UNCHANGED heap

Gt(left, right) ==
    /\ Return("gt", <<left, right>>, IP_gt(heap, left, right))
    /\ UNCHANGED heap

Gte(left, right) ==
    /\ Return("gte", <<left, right>>, IP_gte(heap, left, right))
    /\ UNCHANGED heap

IsValid(x) ==
    /\ Return("isValid", <<x>>, IP_isValid(heap, x))
    /\ UNCHANGED heap

GetClass(ip) ==
    /\ Return("getClass", <<ip>>, IP_getClass(heap, ip))
    /\ UNCHANGED heap

\* IP.random(), when Math.random() returns m / 2^53
Random(m) ==
    /\ Return("random", <<>>, IP_random(heap, m))
    /\ UNCHANGED heap

\* IP.parsePart of src/ip.js
LegacyPart(part, done) ==
    /\ call' = [op |-> "ip.js parsePart", args |-> <<part>>, ret |-> done.ret]
    /\ prev' = IF call.op = "none" THEN NoCall ELSE call
    /\ globals' = done.globals
    /\ UNCHANGED <<heap, given>>

\* IP(x) without new
ConstructCall(x) ==
    /\ Len(heap) < MaxHeap
    /\ heap' = IP_call(heap, x)
    /\ Return("IP()", <<x>>, Ref(Len(heap) + 1))

\* a method of the instance the last call constructed
ReturnAfter(op, args, ret) ==
    /\ call' = [op |-> op, args |-> args, ret |-> ret]
    /\ prev' = call
    /\ UNCHANGED <<heap, given, globals>>

\* a call of a function of Mask, which leaves the instances that IP.not
\* constructed on the heap
MaskDone(op, args, done) ==
    /\ heap' = done.heap
    /\ call' = [op |-> op, args |-> args, ret |-> done.ret]
    /\ prev' = IF call.op = "none" THEN NoCall ELSE call
    /\ UNCHANGED <<given, globals>>

MaskReturn(op, x, done) == MaskDone(op, <<x>>, done)

MaskParse(x, build) == MaskReturn("Mask.parse", x, Mask_parse(heap, x, build))

\* Mask(x), with new or without
MaskConstruct(x, build) == MaskReturn("Mask", x, Mask_new(heap, x, build))

MaskFormat(x, build) == MaskReturn("Mask.format", x, Mask_format(heap, x, build))

MaskEqual(x, y, build) == MaskDone("Mask.equal", <<x, y>>, Mask_equal(heap, x, y, build))

\* IP.parse(IP.format(x, r)): the formatted string is parsed again
ParseFormatted ==
    /\ call.op = "format"
    /\ IsString(call.ret)
    /\ prev' = call
    /\ call' = [op |-> "parse", args |-> <<call.ret>>, ret |-> IP_parse(heap, call.ret)]
    /\ UNCHANGED <<heap, given, globals>>

Construct(x) ==
    /\ Len(heap) < MaxHeap
    /\ heap' = IP_new(heap, x)
    /\ Return("IP", <<x>>, Ref(Len(heap) + 1))

CallNext(ip) ==
    /\ Len(heap) < MaxHeap
    /\ Allocate("next", <<ip>>, IP_next(heap, ip))

CallPrev(ip) ==
    /\ Len(heap) < MaxHeap
    /\ Allocate("prev", <<ip>>, IP_prev(heap, ip))

CallNot(ip) ==
    /\ Len(heap) < MaxHeap
    /\ Allocate("not", <<ip>>, IP_not(heap, ip))

\* a script: the one call of a static function that was drawn
Run(op) == call = NoCall /\ given.op = op

RunParse      == Run("parse") /\ Parse(given.args[1])
RunFormat     == Run("format") /\ Format(given.args[1], given.args[2])
RunFormatPart == Run("formatPart") /\ FormatPart(given.args[1], given.args[2])
RunEqual      == Run("equal") /\ Equal(given.args[1], given.args[2])
RunParseRadix == Run("parseRadix") /\ ParseRadix(given.args[1])
RunCompare    == Run("compare") /\ Compare(given.args[1], given.args[2])
RunLt         == Run("lt") /\ Lt(given.args[1], given.args[2])
RunLte        == Run("lte") /\ Lte(given.args[1], given.args[2])
RunGt         == Run("gt") /\ Gt(given.args[1], given.args[2])
RunGte        == Run("gte") /\ Gte(given.args[1], given.args[2])
RunIsValid    == Run("isValid") /\ IsValid(given.args[1])
RunGetClass   == Run("getClass") /\ GetClass(given.args[1])
RunRandom     == Run("random") /\ Random(given.args[1].m)

\* a script of a method: the instance is constructed, with new or without,
\* and the method is called on it
IsMethod(op) ==
    op \in OrderMethods \cup {"a.valueOf", "a.isValid", "a.format", "Mask.parse(a)",
                             "a.toString", "a.next", "a.prev", "a.not", "parse(a)",
                             "a.equals", "a.compare"}
RunNew  == call = NoCall /\ IsMethod(given.op) /\ Construct(given.args[1])
RunCall == call = NoCall /\ IsMethod(given.op) /\ ConstructCall(given.args[1])

Method(op) == given.op = op /\ call.op \in {"IP", "IP()"}

RunMaskParse == Run("Mask.parse") /\ \E build \in Builds : MaskParse(given.args[1], build)
RunMask ==
    /\ call = NoCall /\ given.op \in {"Mask", "Mask.parse(m)", "Mask.format(m)"}
    /\ \E build \in Builds : MaskConstruct(given.args[1], build)

\* Mask.parse of the instance of IP or of Mask that was constructed
MaskParseInstance ==
    /\ \/ Method("Mask.parse(a)")
       \/ given.op = "Mask.parse(m)" /\ call.op = "Mask" /\ call.ret.t = "object"
    /\ \E build \in Builds : MaskParse(call.ret, build)

RunMaskFormat == Run("Mask.format") /\ \E build \in Builds : MaskFormat(given.args[1], build)
RunMaskEqual ==
    /\ Run("Mask.equal")
    /\ \E build \in Builds : MaskEqual(given.args[1], given.args[2], build)

\* Mask.format of the instance of Mask that was constructed
MaskFormatInstance ==
    /\ given.op = "Mask.format(m)" /\ call.op = "Mask" /\ call.ret.t = "object"
    /\ \E build \in Builds : MaskFormat(call.ret, build)

\* Mask.parse(Mask.format(x)): the formatted string is parsed again
MaskParseFormatted ==
    /\ call.op = "Mask.format" /\ IsString(call.ret)
    /\ \E build \in Builds : MaskParse(call.ret, build)

MethodValueOf ==
    /\ Method("a.valueOf")
    /\ ReturnAfter("a.valueOf", <<call.ret>>, IP_prototype_valueOf(heap, call.ret))
MethodIsValid ==
    /\ Method("a.isValid")
    /\ ReturnAfter("a.isValid", <<call.ret>>, IP_prototype_isValid(heap, call.ret))
MethodFormat ==
    /\ Method("a.format")
    /\ ReturnAfter("a.format", <<call.ret, given.args[2]>>,
                   IP_prototype_format(heap, call.ret, given.args[2]))
MethodLt ==
    /\ Method("a.lt")
    /\ ReturnAfter("a.lt", <<call.ret, given.args[2]>>,
                   IP_prototype_lt(heap, call.ret, given.args[2]))
MethodLte ==
    /\ Method("a.lte")
    /\ ReturnAfter("a.lte", <<call.ret, given.args[2]>>,
                   IP_prototype_lte(heap, call.ret, given.args[2]))
MethodGt ==
    /\ Method("a.gt")
    /\ ReturnAfter("a.gt", <<call.ret, given.args[2]>>,
                   IP_prototype_gt(heap, call.ret, given.args[2]))
MethodGte ==
    /\ Method("a.gte")
    /\ ReturnAfter("a.gte", <<call.ret, given.args[2]>>,
                   IP_prototype_gte(heap, call.ret, given.args[2]))
MethodToString ==
    /\ Method("a.toString")
    /\ ReturnAfter("a.toString", <<call.ret>>, IP_prototype_toString(heap, call.ret, Undefined))
MethodEquals ==
    /\ Method("a.equals")
    /\ ReturnAfter("a.equals", <<call.ret, given.args[2]>>,
                   IP_prototype_equals(heap, call.ret, given.args[2]))
MethodCompare ==
    /\ Method("a.compare")
    /\ ReturnAfter("a.compare", <<call.ret, given.args[2]>>,
                   IP_prototype_compare(heap, call.ret, given.args[2]))
MethodNext ==
    /\ Method("a.next")
    /\ AllocateAfter("a.next", <<call.ret>>, IP_prototype_next(heap, call.ret))
MethodPrev ==
    /\ Method("a.prev")
    /\ AllocateAfter("a.prev", <<call.ret>>, IP_prototype_prev(heap, call.ret))
MethodNot ==
    /\ Method("a.not")
    /\ AllocateAfter("a.not", <<call.ret>>, IP_prototype_not(heap, call.ret))
\* IP.parse of the instance that was constructed
ParseInstance ==
    /\ Method("parse(a)")
    /\ ReturnAfter("parse(a)", <<call.ret>>, IP_parse(heap, call.ret))
LegacyParsePart ==
    /\ call = NoCall /\ given.op \in {"ip.js parsePart", "ip.js parsePart twice"}
    /\ LegacyPart(given.args[1], Legacy_IP_parsePart(globals, given.args[1]))
\* a second call, of the part '10', after the first
LegacyParsePartAgain ==
    /\ given.op = "ip.js parsePart twice" /\ call.op = "ip.js parsePart" /\ prev = NoCall
    /\ LegacyPart(Str(<<"1", "0">>), Legacy_IP_parsePart(globals, Str(<<"1", "0">>)))
LegacyLt ==
    /\ Method("ip.js a.lt")
    /\ ReturnAfter("ip.js a.lt", <<call.ret, given.args[2]>>,
                   Legacy_prototype_lt(heap, call.ret, given.args[2]))
LegacyLte ==
    /\ Method("ip.js a.lte")
    /\ ReturnAfter("ip.js a.lte", <<call.ret, given.args[2]>>,
                   Legacy_prototype_lte(heap, call.ret, given.args[2]))
LegacyGt ==
    /\ Method("ip.js a.gt")
    /\ ReturnAfter("ip.js a.gt", <<call.ret, given.args[2]>>,
                   Legacy_prototype_gt(heap, call.ret, given.args[2]))
LegacyGte ==
    /\ Method("ip.js a.gte")
    /\ ReturnAfter("ip.js a.gte", <<call.ret, given.args[2]>>,
                   Legacy_prototype_gte(heap, call.ret, given.args[2]))

Next ==
    \/ RunParse
    \/ RunFormat
    \/ RunFormatPart
    \/ RunEqual
    \/ RunParseRadix
    \/ RunCompare
    \/ RunLt
    \/ RunLte
    \/ RunGt
    \/ RunGte
    \/ RunIsValid
    \/ RunGetClass
    \/ RunRandom
    \/ RunNew
    \/ RunCall
    \/ MethodValueOf
    \/ MethodIsValid
    \/ MethodFormat
    \/ MethodLt
    \/ MethodLte
    \/ MethodGt
    \/ MethodGte
    \/ MethodToString
    \/ MethodEquals
    \/ MethodCompare
    \/ MethodNext
    \/ MethodPrev
    \/ MethodNot
    \/ ParseInstance
    \/ LegacyLt
    \/ LegacyLte
    \/ LegacyGt
    \/ LegacyGte
    \/ LegacyParsePart
    \/ LegacyParsePartAgain
    \/ RunMaskParse
    \/ RunMask
    \/ MaskParseInstance
    \/ RunMaskFormat
    \/ RunMaskEqual
    \/ MaskFormatInstance
    \/ MaskParseFormatted
    \/ ParseFormatted

Spec == Init /\ [][Next]_vars

\* instances and the functions applied to them, in any order
ObjConstruct == \E x \in ObjLiterals \cup Refs(heap) : Construct(x)
ObjNext      == \E ip \in ObjLiterals \cup Refs(heap) : CallNext(ip)
ObjPrev      == \E ip \in ObjLiterals \cup Refs(heap) : CallPrev(ip)
ObjNot       == \E ip \in ObjLiterals \cup Refs(heap) : CallNot(ip)
\* next, prev and not applied to the instance the last call returned
Returned == call.op \in {"IP", "next", "prev", "not"} /\ IsIP(call.ret) /\ Len(heap) < MaxHeap
ObjNextOfResult == Returned /\ AllocateAfter("next", <<call.ret>>, IP_next(heap, call.ret))
ObjPrevOfResult == Returned /\ AllocateAfter("prev", <<call.ret>>, IP_prev(heap, call.ret))
ObjNotOfResult  == Returned /\ AllocateAfter("not", <<call.ret>>, IP_not(heap, call.ret))
\* IP.parse of a literal before any instance is made, and of the instances
ObjParse ==
    \E x \in (IF heap = <<>> THEN ObjLiterals \cup ObjParseLiterals ELSE {}) \cup Refs(heap) :
        Parse(x)

NextObj ==
    \/ ObjConstruct
    \/ ObjNext
    \/ ObjPrev
    \/ ObjNot
    \/ ObjNextOfResult
    \/ ObjPrevOfResult
    \/ ObjNotOfResult
    \/ ObjParse

SpecObj == InitObj /\ [][NextObj]_vars

----------------------------------------------------------------------------
(* What the claims speak of.                                               *)

\* part p is a complete numeral: 0x/0X and hexadecimal digits, 0 and octal
\* digits, or decimal digits not starting with 0
WellFormed(p) ==
    /\ p # <<>>
    /\ IF Len(p) >= 2 /\ p[1] = "0" /\ p[2] \in {"x", "X"}
       THEN Len(p) >= 3 /\ StrIsDigits(SubSeq(p, 3, Len(p)), 16)
       ELSE IF p[1] = "0" THEN StrIsDigits(p, 8) ELSE StrIsDigits(p, 10)

\* the number a complete numeral writes
NumeralValue(p) ==
    IF Len(p) >= 2 /\ p[1] = "0" /\ p[2] \in {"x", "X"}
    THEN DigitsValue(SubSeq(p, 3, Len(p)), 16)
    ELSE IF p[1] = "0" THEN DigitsValue(p, 8) ELSE DigitsValue(p, 10)

\* the i-th base-256 digit of a magnitude, the lowest being the first
Limb(a, i) == IF i <= Len(a) THEN a[i] ELSE 0

\* the call was IP.parse of a string; its parts
ParsedString == call.op = "parse" /\ IsString(call.args[1])
PartsOfArg == Split(call.args[1].s, ".")

\* an integer in [0, 0xFFFFFFFF]
IsAddress(v) ==
    /\ v.t = "number" /\ v.k = "fin" /\ ~v.neg /\ ~v.frac
    /\ Len(v.m) <= 4
    /\ \A i \in 1..Len(v.m) : v.m[i] \in 0..255

\* the sum of the n parts of values vs weighted as the compressed notation
\* weights them, when each leading part is one octet and the last part fits
\* the octets that are left
Weighted(vs) ==
    LET n == Len(vs)
    IN  Norm([i \in 1..4 |-> IF i <= 4 - n + 1 THEN Limb(vs[n], i)
                             ELSE Limb(vs[4 - i + 1], 1)])

FitsNotation(vs) ==
    LET n == Len(vs)
    IN  /\ \A i \in 1..(n - 1) : Len(vs[i]) <= 1
        /\ Len(vs[n]) <= 4 - n + 1

RECURSIVE OrBits(_, _, _)
OrBits(x, y, k) ==
    IF k = 0 THEN 0
    ELSE (IF x % 2 = 1 \/ y % 2 = 1 THEN 1 ELSE 0)
         + 2 * OrBits(x \div 2, y \div 2, k - 1)

\* (A << 24) | (B << 16) | (C << 8) | D as an unsigned 32-bit quantity
Packed(A, B, C, D) ==
    LET or(x, y) == OrBits(x, y, 8)
    IN  Norm(<< Limb(D, 1),
                or(Limb(D, 2), Limb(C, 1)),
                or(or(Limb(D, 3), Limb(C, 2)), Limb(B, 1)),
                or(or(or(Limb(D, 4), Limb(C, 3)), Limb(B, 2)), Limb(A, 1)) >>)

\* the text of one octet in the given radix, digit by digit
RECURSIVE OctetDigits(_, _)
OctetDigits(o, radix) ==
    IF o < radix THEN <<HexLower[o + 1]>>
    ELSE OctetDigits(o \div radix, radix) \o <<HexLower[(o % radix) + 1]>>

OctetText(o, radix) ==
    CASE radix = 8  -> <<"0">> \o OctetDigits(o, 8)
      [] radix = 16 -> <<"0", "x">> \o OctetDigits(o, 16)
      [] OTHER      -> OctetDigits(o, 10)

RadixOf(r) == CASE r = Big(<<8>>) -> 8 [] r = Big(<<16>>) -> 16 [] OTHER -> 10

----------------------------------------------------------------------------
(* The claims.                                                             *)

\* C1: for every valid address value x and every radix r of 8, 10 and 16,
\* IP.parse(IP.format(x, r)) equals IP.parse(x).
C1_RoundTrip ==
    (/\ call.op = "parse" /\ prev.op = "format"
     /\ IsAddress(prev.args[1])
     /\ prev.args[2] \in {Big(<<8>>), Big(<<10>>), Big(<<16>>)})
    => /\ call.args[1] = prev.ret
       /\ call.ret = IP_parse(heap, prev.args[1])
       /\ call.ret = prev.args[1]

C1_Witness ==
    /\ call.op = "parse" /\ prev.op = "format"
    /\ prev.args = <<Addr(255, 8, 4, 0), Big(<<8>>)>>
    /\ prev.ret = Str(<<"0", "3", "7", "7", ".", "0", "1", "0", ".", "0", "4", ".", "0", "0">>)
    /\ call.ret = Addr(255, 8, 4, 0)

\* C2: for every four-part string whose parts parse to the non-negative
\* integers A, B, C, D, IP.parse returns (A << 24) | (B << 16) | (C << 8) | D
\* as an unsigned 32-bit quantity: each part lands in its own octet.
C2_Packed ==
    (/\ ParsedString /\ Len(PartsOfArg) = 4
     /\ \A i \in 1..4 : WellFormed(PartsOfArg[i]))
    => call.ret = Big(Packed(NumeralValue(PartsOfArg[1]), NumeralValue(PartsOfArg[2]),
                             NumeralValue(PartsOfArg[3]), NumeralValue(PartsOfArg[4])))

\* C3: a one-part string parses to the value of the part, 'A.B' to
\* A*2^24 + B with B in the low 24 bits, 'A.B.C' to A*2^24 + B*2^16 + C with
\* C in the low 16 bits; so 'A.B.C' parses as 'A.B.0.C' and 'A.B' as
\* 'A.0.0.B' for A, B, C in [0, 255].
C3_Compressed ==
    LET ps == PartsOfArg
        n == Len(ps)
        vs == [i \in 1..n |-> NumeralValue(ps[i])]
        zero == <<"0">>
        full == IF n = 3 THEN <<ps[1], ps[2], zero, ps[3]>>
                ELSE <<ps[1], zero, zero, ps[2]>>
    IN  (/\ ParsedString /\ n \in 1..3
         /\ \A i \in 1..n : WellFormed(ps[i])
         /\ FitsNotation(vs))
        => /\ call.ret = Big(Weighted(vs))
           /\ (n \in 2..3 /\ Len(vs[n]) <= 1)
              => call.ret = IP_parse(heap, Str(Join(full, ".")))

C3_Witness ==
    /\ call.op = "parse"
    /\ call.args[1] = Str(<<"0", "x", "4", "A", ".", "6", "5", "5", "3", "6">>)
    /\ call.ret = Addr(74, 1, 0, 0)

\* C4: the radix of a part is inferred from that part alone (0x or 0X:
\* hexadecimal, 0: octal, else decimal) and radices may be mixed, so any two
\* dotted or flat encodings of one 32-bit value parse to the same integer
\* and IP.equal reports them equal.
C4_Radix ==
    LET ps == PartsOfArg
        vs == [i \in 1..4 |-> NumeralValue(ps[i])]
        enc(x, o) == IsString(x) /\ x.s \in EncodingsOf(o)
    IN  /\ (/\ ParsedString /\ Len(ps) = 4
            /\ \A i \in 1..4 : WellFormed(ps[i]) /\ Len(NumeralValue(ps[i])) <= 1)
           => call.ret = Big(Weighted(vs))
        /\ \A o \in {GOOGLE, LAN} :
            /\ (call.op = "parse" /\ enc(call.args[1], o))
               => call.ret = Addr(o[1], o[2], o[3], o[4])
            /\ (call.op = "equal" /\ enc(call.args[1], o) /\ enc(call.args[2], o))
               => call.ret = True

C4_Witness ==
    /\ call.op = "equal"
    /\ call.args = <<Str(<<"7", "4", ".", "0", "1", "7", "5", ".", "0", "x", "e", "2", ".", "4">>),
                     Str(<<"0", "x", "4", "A", "7", "D", "E", "2", "0", "4">>)>>
    /\ call.ret = True

\* C5: IP.parse returns null whenever a part of the dotted input is negative
\* or is no complete numeral in its inferred radix (an octal part with the
\* digit 8 or 9, a part with trailing characters that are no digits, an
\* empty part between two dots).
C5_BadPart ==
    (ParsedString /\ \E i \in 1..Len(PartsOfArg) : ~WellFormed(PartsOfArg[i]))
    => call.ret = Null

\* C6: the result of IP.parse is null or an integer in [0, 0xFFFFFFFF] for
\* every input, and so is the value of every instance that the constructor,
\* next, prev or not produced.
C6_Range ==
    /\ call.op = "parse" => (call.ret = Null \/ IsAddress(call.ret))
    /\ \A i \in 1..Len(heap) : heap[i].value = Null \/ IsAddress(heap[i].value)

C6_Witness ==
    /\ call.op = "parse"
    /\ call.args[1] = Ref(2)
    /\ call.ret = Addr(63, 87, 254, 255)
    /\ Len(heap) = 2
    /\ heap[1].value = Addr(192, 168, 1, 0)
    /\ heap[2].value = Addr(63, 87, 254, 255)

\* C7: IP.parse of a string of five or more parts is null, whatever the
\* parts are.
C7_FiveParts ==
    (ParsedString /\ Len(PartsOfArg) >= 5) => call.ret = Null

C7_Witness ==
    /\ call.op = "parse"
    /\ call.args[1] = Str(<<"1", ".", "0", "x", "4", "A", ".", ".", "1", ".", "1">>)
    /\ call.ret = Null

\* C8: IP.parse of the empty string is the value 0, not null.
C8_Empty ==
    (call.op = "parse" /\ call.args[1] = Str(<<>>)) => call.ret = Big(<<>>)

\* C9: for every valid value and radix IP.format returns four components
\* joined by '.', the highest octet first, each the text of one octet of the
\* value however many parts the input had: plain decimal digits, '0' and
\* the octal digits, or '0x' and the lowercase hexadecimal digits, unpadded.
C9_Format ==
    LET v == IP_parse(heap, call.args[1])
        r == RadixOf(call.args[2])
    IN  (/\ call.op = "format" /\ v # Null
         /\ call.args[2] \in {Big(<<8>>), Big(<<10>>), Big(<<16>>)})
        => call.ret = Str(Join([i \in 1..4 |-> OctetText(Limb(v.m, 5 - i), r)], "."))

C9_Witness ==
    /\ call.op = "format"
    /\ call.args = <<Str(<<"1", "9", "2", ".", "1", "6", "8", ".", "5", "8">>), Big(<<16>>)>>
    /\ call.ret = Str(<<"0", "x", "c", "0", ".", "0", "x", "a", "8", ".", "0", "x", "0", ".", "0", "x", "3", "a">>)

\* C10: IP.format and IP.formatPart return null when a radix is given that
\* does not resolve to 8, 10 or 16; only an omitted radix means decimal.
C10_StrictRadix ==
    (/\ call.op \in {"format", "formatPart"}
     /\ IsAddress(call.args[1])
     /\ call.args[2] # Undefined
     /\ IP_parseRadix(heap, call.args[2]) = Null)
    => call.ret = Null

\* the radix a first character names
Mnemonic(c) ==
    CASE c \in {"o", "O"} -> Big(<<8>>)
      [] c \in {"d", "D"} -> Big(<<10>>)
      [] c \in {"h", "H"} -> Big(<<16>>)
      [] OTHER            -> Null

\* the radix of the input x whose numeric value is n
RadixExpected(x, n) ==
    IF n.k # "NaN"
    THEN IF n \in {Big(<<8>>), Big(<<10>>), Big(<<16>>)} THEN n ELSE Null
    ELSE IF IsString(x) /\ x.s # <<>> THEN Mnemonic(x.s[1]) ELSE Null

\* inputs of IP.parseRadix with the results expected of them
RadixCases ==
    { <<Big(<<8>>), Big(<<8>>)>>, <<Big(<<10>>), Big(<<10>>)>>, <<Big(<<16>>), Big(<<16>>)>>,
      <<Str(<<"8">>), Big(<<8>>)>>, <<Str(<<"1", "0">>), Big(<<10>>)>>,
      <<Str(<<"1", "6">>), Big(<<16>>)>>,
      <<Str(<<"o", "c", "t">>), Big(<<8>>)>>, <<Str(<<"d", "e", "c">>), Big(<<10>>)>>,
      <<Str(<<"H", "E", "X">>), Big(<<16>>)>>, <<Str(<<"O">>), Big(<<8>>)>>,
      <<Str(<<"D">>), Big(<<10>>)>>, <<Str(<<"h", "8">>), Big(<<16>>)>>,
      <<Str(<<"d", "1", "6">>), Big(<<10>>)>>,
      <<Undefined, Null>>, <<Null, Null>>, <<Str(<<>>), Null>>,
      <<Big(<<1>>), Null>>, <<Big(<<2>>), Null>>, <<Big(<<7>>), Null>>,
      <<Big(<<100>>), Null>>, <<Str(<<"x">>), Null>>, <<Str(<<"2">>), Null>>,
      <<Str(<<"b", "i", "n">>), Null>>, <<Str(<<" ", "o", "c", "t">>), Null>>,
      <<Str(<<"8", "o">>), Null>>, <<Frac(<<8>>), Null>>, <<NegBig(<<8>>), Null>>,
      <<Str(<<"0", "x", "1", "0">>), Big(<<16>>)>>, <<Str(<<"0", "1", "0">>), Big(<<10>>)>>,
      <<Str(<<"1", "e", "1">>), Big(<<10>>)>>, <<Str(<<" ", "8">>), Big(<<8>>)>>,
      <<Str(<<"8", ".", "0">>), Big(<<8>>)>> }

\* C11 as stated: IP.parseRadix returns 8, 10 or 16 for the numbers 8, 10
\* and 16, for the strings '8', '10' and '16' and for a non-numeric string
\* whose first character is o, d or h in either case, and null for every
\* other input.
C11_Listed ==
    LET x == call.args[1]
    IN  call.op = "parseRadix" =>
        call.ret =
            IF x \in {Big(<<8>>), Big(<<10>>), Big(<<16>>)} THEN x
            ELSE IF x = Str(<<"8">>) THEN Big(<<8>>)
            ELSE IF x = Str(<<"1", "0">>) THEN Big(<<10>>)
            ELSE IF x = Str(<<"1", "6">>) THEN Big(<<16>>)
            ELSE IF IsString(x) /\ x.s # <<>> /\ StringToNumber(x.s).k = "NaN"
            THEN Mnemonic(x.s[1])
            ELSE Null

\* C11, amended: IP.parseRadix returns 8, 10 or 16 for every number or
\* string whose numeric value is 8, 10 or 16 ('0x10', '010', '1e1' and ' 8'
\* as well as '8', '10', '16'), and for a non-numeric string whose first
\* character is o, d or h in either case; for every other input it returns
\* null.  The result is always one of 8, 10, 16 and null.
C11_Radix ==
    call.op = "parseRadix" =>
        /\ call.ret \in {Big(<<8>>), Big(<<10>>), Big(<<16>>), Null}
        /\ call.ret = RadixExpected(call.args[1], ToNumberPrim(call.args[1]))
        /\ \A c \in RadixCases : c[1] = call.args[1] => call.ret = c[2]

C11_Witness ==
    /\ call.op = "parseRadix"
    /\ call.args = <<Str(<<"H", "E", "X">>)>>
    /\ call.ret = Big(<<16>>)

\* r is an instance whose value has the magnitude m
Holds(r, m) == IsIP(r) /\ heap[r.id].value = Big(m)

\* what IP.next and IP.prev of a valid value v are to return
NextOf(v, r) ==
    v # Null => IF v = IP_MAX_VALUE THEN r = Null ELSE Holds(r, BigAdd(v.m, <<1>>))
PrevOf(v, r) ==
    v # Null => IF v = IP_MIN_VALUE THEN r = Null ELSE Holds(r, BigSub(v.m, <<1>>))

\* C12: for a valid value v below 0xFFFFFFFF IP.next(v) is an instance of
\* value v + 1, for a valid v above 0 IP.prev(v) is an instance of value
\* v - 1, IP.next(0xFFFFFFFF) and IP.prev(0) are null, and no sequence of
\* next and prev makes an instance whose value is outside [0, 0xFFFFFFFF].
C12_Clamped ==
    /\ call.op = "next" => NextOf(IP_parse(heap, call.args[1]), call.ret)
    /\ call.op = "prev" => PrevOf(IP_parse(heap, call.args[1]), call.ret)
    /\ (call.op \in {"next", "prev"} /\ IsIP(call.ret))
       => IsAddress(heap[call.ret.id].value) \/ IP_parse(heap, call.args[1]) = Null

C12_Witness ==
    /\ call.op = "next" /\ prev.op = "next"
    /\ prev.args = <<Str(<<"1", "9", "2", ".", "1", "6", "8", ".", "0", ".", "2", "5", "5">>)>>
    /\ heap[prev.ret.id].value = Addr(192, 168, 1, 0)
    /\ heap[call.ret.id].value = Addr(192, 168, 1, 1)

\* the value of the instance a call returned is the valid value v
SameAs(v, r) == IsIP(r) /\ heap[r.id].value = v

\* C13: for a valid a other than 0.0.0.0, next(prev(a)) has the value of
\* a, and for a valid a other than 255.255.255.255, prev(next(a)) has the
\* value of a.
C13_Inverse ==
    /\ (call.op = "next" /\ prev.op = "prev" /\ IsIP(prev.ret))
       => (IP_parse(heap, prev.args[1]) = Null
           \/ SameAs(IP_parse(heap, prev.args[1]), call.ret))
    /\ (call.op = "prev" /\ prev.op = "next" /\ IsIP(prev.ret))
       => (IP_parse(heap, prev.args[1]) = Null
           \/ SameAs(IP_parse(heap, prev.args[1]), call.ret))

C13_Witness ==
    /\ call.op = "next" /\ prev.op = "prev"
    /\ prev.args = <<Big(<<1>>)>>
    /\ heap[prev.ret.id].value = Big(<<>>)
    /\ heap[call.ret.id].value = Big(<<1>>)

\* v XOR 0xFFFFFFFF, octet by octet
Complement(v) == Big(Norm([i \in 1..4 |-> 255 - Limb(v.m, i)]))

NotOf(v, r) ==
    v # Null => /\ SameAs(Complement(v), r)
                /\ heap[r.id].value = Big(BigSub(IP_MAX_VALUE.m, v.m))

\* C14: for a valid a, IP.not(a) is an instance whose value is a XOR
\* 0xFFFFFFFF, which is 0xFFFFFFFF - a, and not(not(a)) has the value of a.
C14_Not ==
    /\ call.op = "not" => NotOf(IP_parse(heap, call.args[1]), call.ret)
    /\ (call.op = "not" /\ prev.op = "not" /\ IsIP(prev.ret))
       => SameAs(IP_parse(heap, prev.args[1]), call.ret)

C14_Witness ==
    /\ call.op = "not" /\ prev.op = "not"
    /\ prev.args = <<Addr(127, 255, 255, 255)>>
    /\ heap[prev.ret.id].value = Addr(128, 0, 0, 0)
    /\ heap[call.ret.id].value = Addr(127, 255, 255, 255)

\* a is below b as unsigned 32-bit integers: the highest octet that differs
\* is smaller in a
Below(a, b) ==
    \E i \in 1..4 : /\ Limb(a.m, i) < Limb(b.m, i)
                     /\ \A j \in (i + 1)..4 : Limb(a.m, j) = Limb(b.m, j)

\* -1, 0 or 1 as a is below, equal to or above b
Order(a, b) == IF Below(a, b) THEN -1 ELSE IF Below(b, a) THEN 1 ELSE 0

\* what the function f returns when the order of its arguments is c
OrderResult(f, c) ==
    CASE f = "compare" -> (IF c = -1 THEN NegBig(<<1>>) ELSE Big(BigOfInt(c)))
      [] f = "lt"      -> Bool(c = -1)
      [] f = "lte"     -> Bool(c # 1)
      [] f = "gt"      -> Bool(c = 1)
      [] f = "gte"     -> Bool(c # -1)

\* the order IP.compare reports
Reported(r) == IF r = NegBig(<<1>>) THEN -1 ELSE IF r = Big(<<1>>) THEN 1 ELSE 0

OrderedAs(f, a, b, r, cab, cba, caa) ==
    (a # Null /\ b # Null)
    => /\ r = OrderResult(f, Order(a, b))
       /\ r = OrderResult(f, Reported(cab))
       /\ cab \in {NegBig(<<1>>), Big(<<>>), Big(<<1>>)}
       /\ Reported(cab) = 0 - Reported(cba)
       /\ caa = Big(<<>>)

\* C15: for valid a and b IP.compare(a, b) is -1, 0 or 1 as parse(a) is
\* below, equal to or above parse(b) as unsigned 32-bit integers;
\* compare(a, a) is 0 and compare(a, b) = -compare(b, a); lt holds exactly
\* when compare is -1, gt when it is 1, lte when it is not 1 and gte when
\* it is not -1.
C15_Order ==
    call.op \in {"compare", "lt", "lte", "gt", "gte"}
    => OrderedAs(call.op, IP_parse(heap, call.args[1]), IP_parse(heap, call.args[2]),
                 call.ret,
                 IP_compare(heap, call.args[1], call.args[2]),
                 IP_compare(heap, call.args[2], call.args[1]),
                 IP_compare(heap, call.args[1], call.args[1]))

C15_Witness ==
    /\ call.op = "lt"
    /\ call.args = <<Addr(128, 0, 0, 0), Str(<<"7", "4", ".", "1", "2", "5", ".", "2", "2", "6", ".", "4">>)>>
    /\ call.ret = False
    /\ IP_compare(heap, call.args[1], call.args[2]) = Big(<<1>>)

\* the static function an ordering method stands for
MethodOf(op) ==
    CASE op \in {"a.lt", "ip.js a.lt"}   -> "lt"
      [] op \in {"a.lte", "ip.js a.lte"} -> "lte"
      [] op \in {"a.gt", "ip.js a.gt"}   -> "gt"
      [] OTHER                           -> "gte"

Mirrors(f, a, b, r) == (a # Null /\ b # Null) => r = OrderResult(f, Order(a, b))

\* C16: in src/ip.js as in the variant with Mask, a.lt(b), a.lte(b),
\* a.gt(b) and a.gte(b) return the result of comparing the value of the
\* instance a with IP.parse(b), and the call raises no error.
C16_Methods ==
    call.op \in OrderMethods
    => /\ call.ret.t # "throw"
       /\ Mirrors(MethodOf(call.op), heap[call.args[1].id].value,
                  IP_parse(heap, call.args[2]), call.ret)

\* the falsy and the unparseable inputs of the constructor
Falsy == {Undefined, Null, Big(<<>>), Str(<<>>), NaN, False}
Unparseable ==
    { Str(<<"1", ".", "2", ".", "3", ".", "4", ".", "5">>), Str(<<"0", "8", ".", "x">>),
      Big(<<0, 0, 0, 0, 1>>) }

\* C17: valueOf() of an instance constructed with no argument, with a
\* falsy argument or with an unparseable string is 0, and the constructor
\* called without new makes the instance that new makes.
C17_Default ==
    /\ (call.op = "a.valueOf" /\ prev.args[1] \in Falsy \cup Unparseable)
       => call.ret = Big(<<>>)
    /\ (call.op = "a.valueOf" /\ prev.args[1] \in Falsy) => heap[1].value = Big(<<>>)
    /\ call.op = "IP()"
       => (call.ret = Ref(1) /\ heap = IP_new(<<>>, call.args[1]))
    /\ (call.op = "a.valueOf" /\ prev.op = "IP()")
       => call.ret = IP_prototype_valueOf(IP_new(<<>>, prev.args[1]), Ref(1))

C17_Witness ==
    /\ call.op = "a.valueOf" /\ prev.op = "IP()"
    /\ prev.args = <<Str(<<"1", ".", "2", ".", "3", ".", "4", ".", "5">>)>>
    /\ heap[1].value = Null
    /\ call.ret = Big(<<>>)

\* C18: IP.isValid(x) is true exactly when IP.parse(x) is not null, for an
\* instance too; an instance made of an unparseable input reports
\* isValid() false and format() null, and one made of 0 or '0.0.0.0'
\* reports isValid() true.
C18_Valid ==
    /\ call.op = "isValid" => call.ret = Bool(IP_parse(heap, call.args[1]) # Null)
    /\ call.op = "a.isValid"
       => /\ call.ret = Bool(heap[call.args[1].id].value # Null)
          /\ prev.args[1] \in Unparseable => call.ret = False
          /\ prev.args[1] \in {Big(<<>>), Str(<<"0", ".", "0", ".", "0", ".", "0">>)}
             => (call.ret = True /\ heap[call.args[1].id].value = Big(<<>>))
    /\ call.op = "a.format"
       => /\ prev.args[1] \in Unparseable => call.ret = Null
          /\ (prev.args[1] = Big(<<>>) /\ call.args[2] = Undefined)
             => call.ret = Str(<<"0", ".", "0", ".", "0", ".", "0">>)

C18_Witness ==
    /\ call.op = "a.isValid" /\ prev.op = "IP"
    /\ prev.args = <<Str(<<"1", ".", "2", ".", "3", ".", "4", ".", "5">>)>>
    /\ call.ret = False

\* C19: IP.parse, IP.format, IP.getParts, IP.not, IP.next, IP.prev,
\* IP.getClass, Mask.parse and Mask.format raise no exception when they are
\* given an unparseable string, a number out of range or null: they return
\* a value or null.
C19_NoThrow ==
    (/\ call.op \in {"parse", "format", "getParts", "not", "next", "prev", "getClass",
                      "Mask.parse", "Mask.format"}
     /\ IP_parse(heap, call.args[1]) = Null)
    => call.ret.t # "throw"

\* an integer in [0, 32]
IsBitLength(v) ==
    /\ v.t = "number" /\ v.k = "fin" /\ ~v.neg /\ ~v.frac
    /\ Len(v.m) <= 1 /\ SmallOf(v.m) \in 0..32

\* C20: a result of Mask.parse that is not null, and so the value of every
\* instance of Mask, is an integer in [0, 32], whatever the input is.
C20_BitLength ==
    /\ (call.op = "Mask.parse" /\ call.ret # Null /\ call.ret.t # "throw")
       => IsBitLength(call.ret)
    /\ \A i \in 1..Len(heap) : heap[i].cls = "Mask" => IsBitLength(heap[i].value)

\* the script constructs Mask(n) for the bit-length n
GivenLength(op, n) == given.op = op /\ given.args[1] = Big(BigOfInt(n))

\* the dotted decimal text of the 32-bit pattern of n leading 1-bits
MaskPattern(n) == Join([i \in 1..4 |-> OctetDigits(MaskOctets(n)[i], 10)], ".")

\* C21: for every n in [0, 32], Mask.format(Mask(n)) is the dotted decimal
\* string of the pattern of n leading 1-bits and 32 - n 0-bits, and
\* Mask.parse of that string is n.
C21_MaskRoundTrip ==
    \A n \in 0..32 :
        GivenLength("Mask.format(m)", n) =>
            /\ call.op = "Mask.format" => call.ret = Str(MaskPattern(n))
            /\ call.op = "Mask.parse" => call.ret = Big(BigOfInt(n))

\* C22: for every N in [0, 32], Mask.parse of the dotted mask string of N
\* leading 1-bits returns N; a number or a numeric string that does not
\* exceed 32 is returned as the bit-length itself.
C22_Dotted ==
    (call.op = "Mask.parse" /\ prev = NoCall) =>
        /\ \A n \in 0..32 : call.args[1] = Str(MaskText(n)) => call.ret = Big(BigOfInt(n))
        /\ call.args[1] \in {Big(<<8>>), Big(<<>>), Big(<<32>>)} => call.ret = call.args[1]
        /\ call.args[1] = Str(<<"8">>) => call.ret = Big(<<8>>)
        /\ call.args[1] = Str(<<"3", "2">>) => call.ret = Big(<<32>>)

\* the text of s after its last "/"
AfterLastSlash(s) == SubSeq(s, SetMax({i \in 1..Len(s) : s[i] = "/"}) + 1, Len(s))

\* what Mask.parse returns for the string s alone, on one build or another
ParsedAlone(s) == {Mask_parse(<<>>, Str(s), build).ret : build \in Builds}

\* Mask.parse was called with a string that has a "/"
SlashCall ==
    /\ call.op = "Mask.parse" /\ prev = NoCall
    /\ IsString(call.args[1])
    /\ \E i \in 1..Len(call.args[1].s) : call.args[1].s[i] = "/"

\* C23: for every string that contains "/", Mask.parse returns what it
\* returns for the text after the last "/"; the text before has no
\* influence: '127.0.0.1/8' and 'x/8' both give 8.
C23_Slash ==
    SlashCall =>
        /\ call.ret \in ParsedAlone(AfterLastSlash(call.args[1].s))
        /\ AfterLastSlash(call.args[1].s) = <<"8">> => call.ret = Big(<<8>>)

C23_Witness ==
    /\ SlashCall
    /\ call.args[1] = Str(<<"a", "/", "b", "/", "2", "4">>)
    /\ call.ret = Big(<<24>>)

\* the class of the address of magnitude m, by the range it lies in
ClassOf(m) ==
    IF BigCmp(m, <<0, 0, 0, 128>>) < 0 THEN "A"
    ELSE IF BigCmp(m, <<0, 0, 0, 192>>) < 0 THEN "B"
    ELSE IF BigCmp(m, <<0, 0, 0, 224>>) < 0 THEN "C"
    ELSE IF BigCmp(m, <<0, 0, 0, 240>>) < 0 THEN "D"
    ELSE "E"

\* IP.getClass was called with what IP.parse reads as the address v
ClassCall(v) == call.op = "getClass" /\ IsAddress(v)

\* C24: IP.getClass gives every valid address the class of its leading
\* bits: A below 0x80000000, B up to 0xBFFFFFFF, C up to 0xDFFFFFFF, D up to
\* 0xEFFFFFFF and E from 0xF0000000; the addresses with bit 31 set too.
C24_Class ==
    call.op = "getClass" =>
        (ClassCall(IP_parse(heap, call.args[1]))
            => call.ret = Str(<<ClassOf(IP_parse(heap, call.args[1]).m)>>))

C24_Witness ==
    /\ call.op = "getClass"
    /\ call.args[1] = Addr(191, 255, 255, 255)
    /\ call.ret = Str(<<"B">>)

\* s is four decimal numerals of octets with dots between
IsDottedDecimal(s) ==
    /\ Len(Split(s, ".")) = 4
    /\ \A i \in 1..4 :
        /\ Split(s, ".")[i] # <<>>
        /\ StrIsDigits(Split(s, ".")[i], 10)
        /\ BigCmp(DigitsValue(Split(s, ".")[i], 10), <<255>>) <= 0

\* C25: whatever number in [0, 1) Math.random() returns, IP.random returns
\* a string, never null, of four decimal components, which IP.parse reads
\* as a value in [0, 0xFFFFFFFF].
C25_Random ==
    call.op = "random" =>
        /\ IsString(call.ret)
        /\ IsDottedDecimal(call.ret.s)
        /\ IsAddress(IP_parse(heap, call.ret))

C25_Witness ==
    /\ call.op = "random"
    /\ given.args[1] = Big(BigSub(Pow2(53), <<1>>))
    /\ call.ret = Str(<<"2", "5", "5", ".", "2", "5", "5", ".", "2", "5", "5", ".", "2", "5", "4">>)

\* the step leaves every instance as it was
Untouched ==
    /\ Len(heap') >= Len(heap)
    /\ \A i \in 1..Len(heap) : heap'[i] = heap[i]

\* an instance that next, prev or not returns in the step was not there before
Fresh ==
    (call'.op \in {"a.next", "a.prev", "a.not"} /\ call'.ret.t = "object")
        => (call'.ret.id > Len(heap) /\ call'.ret # call'.args[1])

\* C26: no operation changes the value of its receiver or of an instance it
\* is given: every instance of IP and of Mask holds the value it was
\* constructed with after every call, and next, prev and not return a new
\* instance.
C26_Immutable == [][Untouched /\ Fresh]_vars

C26_Witness ==
    /\ call.op = "a.not" /\ prev.op = "IP"
    /\ call.args = <<Ref(1)>> /\ call.ret = Ref(2)
    /\ heap = << [cls |-> "IP", value |-> Addr(192, 168, 0, 58)],
                 [cls |-> "IP", value |-> Addr(63, 87, 255, 197)] >>

\* C27: no operation reads or writes a variable shared between calls, in
\* src/ip.js as in the other variants: no call leaves a variable behind
\* that a later call finds.
C27_NoSharedState == DOMAIN globals = {}

\* C28: IP.next and IP.prev return null, never an instance, when their input
\* does not parse to a valid address: an unparseable string, a number out of
\* range, null, or an instance that holds the invalid value.
C28_InvalidIsNull ==
    (call.op \in {"next", "prev"} /\ IP_parse(heap, call.args[1]) = Null)
        => call.ret = Null

====
